---- MODULE Spec2Model ----
(***************************************************************************)
(* Model of the agenda + weather dashboard plugin:                         *)
(*   agenda_weather/agenda_weather.py   (AgendaWeather.generate_image and  *)
(*                                       the calendar / weather fetchers)  *)
(*   agenda_weather/constants.py        (LABELS, WEATHER_ICONS)            *)
(*   agenda_weather/render/pil_renderer.py (the PIL layout engine)         *)
(*                                                                         *)
(* Time is counted in whole hours.  An instant is a number of hours on the *)
(* UTC time line; day d is the wall-clock hours 24*d .. 24*d+23.  An aware *)
(* datetime is [utc, off]: the instant and the UTC offset of its tzinfo.   *)
(* An ISO-8601 string is [kind, wall, off]: what the text spells out, the  *)
(* wall-clock reading and (for an aware value) the offset suffix.          *)
(***************************************************************************)
EXTENDS Integers, Sequences, FiniteSets, TLC

\* ------------------------------------------------------------------------
\* Bounds of the model
\* ------------------------------------------------------------------------
MaxSources == 2      \* longest calendarURLs[] list
MaxOcc     == 1      \* occurrences one calendar yields inside the window
LastDay    == 4      \* the time line is days 0 .. LastDay

\* ------------------------------------------------------------------------
\* Python values
\* ------------------------------------------------------------------------
\* None, and a key a dict does not have
None == [kind |-> "none", wall |-> 0, off |-> 0]

Min(a, b) == IF a <= b THEN a ELSE b

SeqsUpTo(S, n) == UNION {[1..k -> S] : k \in 0..n}

\* ------------------------------------------------------------------------
\* datetime / pytz
\* ------------------------------------------------------------------------
\* A pytz timezone with at most one transition on the time line: the offset
\* is `before` for instants earlier than `at` and `after` from `at` on.
\*   UTC, Pacific/Pago_Pago (-11), Pacific/Kiritimati (+14): fixed offsets.
\*   America/New_York over a DST end (day 0 = the Friday before the first
\*   Sunday of November): EDT -4 until 06:00 UTC of day 2, then EST -5.
\*   America/New_York over a DST start (day 0 = the Friday before the second
\*   Sunday of March): EST -5 until 07:00 UTC of day 2, then EDT -4.
TzUTC        == [name |-> "UTC", before |-> 0, after |-> 0, at |-> 0]
TzPagoPago   == [name |-> "Pacific/Pago_Pago", before |-> -11, after |-> -11, at |-> 0]
TzKiritimati == [name |-> "Pacific/Kiritimati", before |-> 14, after |-> 14, at |-> 0]
TzNewYorkFall   == [name |-> "America/New_York (DST ends)", before |-> -4, after |-> -5, at |-> 54]
TzNewYorkSpring == [name |-> "America/New_York (DST starts)", before |-> -5, after |-> -4, at |-> 55]

\* tzinfo.utcoffset at an instant
UtcOffset(tz, utc) == IF utc < tz.at THEN tz.before ELSE tz.after

\* datetime.now(tz)
Now(tz, utc) == [utc |-> utc, off |-> UtcOffset(tz, utc)]

\* dt.astimezone(tz): same instant, the zone's offset at that instant
AsTimezone(dt, tz) == [utc |-> dt.utc, off |-> UtcOffset(tz, dt.utc)]

\* tz.localize(naive) with pytz's default is_dst=False: the offset under
\* which the wall-clock reading exists; standard time (the smaller offset)
\* for a reading that is ambiguous or that falls in the gap.
Localize(tz, wall) ==
  LET fits == {o \in {tz.before, tz.after} : UtcOffset(tz, wall - o) = o}
      off  == IF Cardinality(fits) = 1 THEN CHOOSE o \in fits : TRUE
              ELSE Min(tz.before, tz.after)
  IN  [utc |-> wall - off, off |-> off]

Wall(dt) == dt.utc + dt.off

\* dt.date(): the calendar day of the wall-clock reading
DateOf(dt) == Wall(dt) \div 24

\* dt.replace(hour=0, minute=0, second=0, microsecond=0): tzinfo is kept
ReplaceMidnight(dt) == [utc |-> 24 * DateOf(dt) - dt.off, off |-> dt.off]

\* dt + timedelta(hours=h): wall-clock arithmetic, tzinfo is kept
PlusHours(dt, h) == [utc |-> dt.utc + h, off |-> dt.off]

\* datetime.isoformat() of an aware datetime, date.isoformat() of a date
IsoFormat(dt) == [kind |-> "aware", wall |-> Wall(dt), off |-> dt.off]
IsoFormatDate(d) == [kind |-> "date", wall |-> 24 * d, off |-> 0]
\* time.isoformat() of a time of day ("10:00:00"): a string without a date
IsoFormatTime(h) == [kind |-> "time", wall |-> h, off |-> 0]

\* datetime.fromisoformat(s) raises ValueError for a string without a date
FromIsoformatRaises(s) == s.kind = "time"

\* datetime.fromisoformat(s) of a string that carries an offset: the
\* wall-clock reading under a fixed-offset tzinfo
FromIsoformat(s) == [utc |-> s.wall - s.off, off |-> s.off]

\* ------------------------------------------------------------------------
\* Colours (agenda_weather.py, get_contrast_color)
\* ------------------------------------------------------------------------
\* A colour string "#RRGGBB" is the sequence of its six hex digits.
default_color == <<0, 0, 7, 11, 15, 15>>      \* '#007BFF'
ColorBlack    == <<0, 0, 0, 0, 0, 0>>         \* '#000000'
ColorWhite    == <<15, 15, 15, 15, 15, 15>>   \* '#ffffff'
ColorRed      == <<15, 15, 0, 0, 0, 0>>       \* '#FF0000'
ColorYellow   == <<15, 15, 15, 15, 0, 0>>     \* '#FFFF00'

\* ImageColor.getrgb on "#RRGGBB"
GetRGB(c) == <<16 * c[1] + c[2], 16 * c[3] + c[4], 16 * c[5] + c[6]>>

\* faulty variant: black only above 150
get_contrast_color_Strict(color) ==
  LET rgb == GetRGB(color)
      yiq1000 == rgb[1] * 299 + rgb[2] * 587 + rgb[3] * 114
  IN  IF yiq1000 > 150 * 1000 THEN ColorBlack ELSE ColorWhite

\* yiq = (r*299 + g*587 + b*114) / 1000; black when yiq >= 150
get_contrast_color(color) ==
  LET rgb == GetRGB(color)
      yiq1000 == rgb[1] * 299 + rgb[2] * 587 + rgb[3] * 114
  IN  IF yiq1000 >= 150 * 1000 THEN ColorBlack ELSE ColorWhite

\* ------------------------------------------------------------------------
\* Labels (constants.py)
\* ------------------------------------------------------------------------
LABELS ==
  [en |-> [allDayText |-> "All day",
           noEventsContent |-> "Nothing scheduled!",
           nothingMoreToday |-> "Nothing more for today.",
           today |-> "Today",
           tomorrow |-> "Tomorrow",
           dayAfterTomorrow |-> "Day after tomorrow"],
   de |-> [allDayText |-> "Ganztaegig",
           noEventsContent |-> "Nix geplant!",
           nothingMoreToday |-> "Nix mehr los heute!",
           today |-> "Heute",
           tomorrow |-> "Morgen",
           dayAfterTomorrow |-> "Uebermorgen"],
   es |-> [allDayText |-> "Todo el dia",
           noEventsContent |-> "Nada programado!",
           nothingMoreToday |-> "Nada mas para hoy.",
           today |-> "Hoy",
           tomorrow |-> "Manana",
           dayAfterTomorrow |-> "Pasado manana"],
   fr |-> [allDayText |-> "Toute la journee",
           noEventsContent |-> "Rien de prevu !",
           nothingMoreToday |-> "Rien d'autre pour aujourd'hui.",
           today |-> "Aujourd'hui",
           tomorrow |-> "Demain",
           dayAfterTomorrow |-> "Apres-demain"]]

\* LABELS.get(locale_code, LABELS["en"])
LabelsFor(locale_code) ==
  IF locale_code \in DOMAIN LABELS THEN LABELS[locale_code] ELSE LABELS["en"]

\* ------------------------------------------------------------------------
\* Occurrences handed over by the recurrence expansion
\* ------------------------------------------------------------------------
\* One VEVENT occurrence: SUMMARY, DTSTART and at most one of DTEND and
\* DURATION.  A DTSTART/DTEND value is a date (kind "date", day) or an aware
\* datetime (kind "datetime", utc, off); DURATION is a number of hours.
\* icalendar also decodes a bare time of day ("T100000") to a
\* datetime.time (kind "time", utc = the hour), a value without a date.
DateValue(d) == [kind |-> "date", day |-> d, utc |-> 0, off |-> 0]
DatetimeValue(utc, off) == [kind |-> "datetime", day |-> 0, utc |-> utc, off |-> off]
TimeValue(h) == [kind |-> "time", day |-> 0, utc |-> h, off |-> 0]
NoValue == [kind |-> "absent", day |-> 0, utc |-> 0, off |-> 0]

Occurrence(summary, dtstart, dtend, hasDuration, duration) ==
  [summary |-> summary, dtstart |-> dtstart, dtend |-> dtend,
   hasDuration |-> hasDuration, duration |-> duration]

\* line 237, dtstart + duration: a datetime.time plus a timedelta raises
\* TypeError, with this message
TimePlusTimedelta ==
  "unsupported operand type(s) for +: 'datetime.time' and 'datetime.timedelta'"

ParseRaises(event) ==
  event.dtend.kind = "absent" /\ event.hasDuration /\ event.dtstart.kind = "time"

\* parse_data_points(event, tz): <<start, end, all_day>>, or raised
parse_data_points(event, tz) ==
  LET dtstart == event.dtstart
      isDatetime == dtstart.kind = "datetime"
      start == IF isDatetime
               THEN IsoFormat(AsTimezone([utc |-> dtstart.utc, off |-> dtstart.off], tz))
               ELSE IF dtstart.kind = "time" THEN IsoFormatTime(dtstart.utc)
               ELSE IsoFormatDate(dtstart.day)
      end == IF event.dtend.kind # "absent"
             THEN IF event.dtend.kind = "datetime"
                  THEN IsoFormat(AsTimezone([utc |-> event.dtend.utc,
                                             off |-> event.dtend.off], tz))
                  ELSE IF event.dtend.kind = "time"
                  THEN IsoFormatTime(event.dtend.utc)
                  ELSE IsoFormatDate(event.dtend.day)
             ELSE IF event.hasDuration
                  THEN IF isDatetime
                       \* (dtstart + duration).isoformat(): dtstart's own tzinfo
                       THEN IsoFormat(PlusHours([utc |-> dtstart.utc, off |-> dtstart.off],
                                                event.duration))
                       \* date + timedelta: whole days only
                       ELSE IF dtstart.kind = "date"
                       THEN IsoFormatDate(dtstart.day + (event.duration \div 24))
                       ELSE None
                  ELSE None
  IN  [start |-> start, end |-> end, all_day |-> ~isDatetime,
       raised |-> ParseRaises(event)]

\* faulty variant: an occurrence whose timestamp does not parse is dropped
OnParseFailure_Drop == TRUE

\* Lines 173-176 of fetch_ics_events, `except Exception: pass`: the
\* occurrence is not filtered out
OnParseFailure == FALSE

\* Lines 155-177 of fetch_ics_events: TRUE when the occurrence is dropped
\* (either `continue`).  The strings come from isoformat(); fromisoformat()
\* raises on the one that carries no date.
FilteredOut(start, end, all_day, tz, current_dt) ==
  LET current_day_start == ReplaceMidnight(current_dt)
      end_iso == IF end # None THEN end ELSE start
      end_dt  == IF end_iso.kind = "aware" THEN FromIsoformat(end_iso)
                 ELSE Localize(tz, end_iso.wall)
  IN  IF FromIsoformatRaises(end_iso) THEN OnParseFailure
      ELSE \/ DateOf(end_dt) < DateOf(current_day_start)
           \/ /\ DateOf(end_dt) = DateOf(current_dt)
              /\ ~all_day
              /\ end_dt.utc <= current_dt.utc

\* The dict appended to parsed_events ("end" is None when the key is not
\* set; classNames is empty when the key is not set)
ParsedEvent(event, tz, color) ==
  LET p == parse_data_points(event, tz)
  IN  [title |-> event.summary,
       start |-> p.start,
       end |-> p.end,
       backgroundColor |-> color,
       textColor |-> get_contrast_color(color),
       allDay |-> p.all_day,
       classNames |-> {}]

Keeps(event, tz, current_dt) ==
  LET p == parse_data_points(event, tz)
  IN  ~FilteredOut(p.start, p.end, p.all_day, tz, current_dt)

\* the occurrences the inner loop handles before parse_data_points raises
RECURSIVE HandledPrefix(_, _)
HandledPrefix(occs, tz) ==
  IF occs = <<>> \/ parse_data_points(Head(occs), tz).raised THEN <<>>
  ELSE <<Head(occs)>> \o HandledPrefix(Tail(occs), tz)

\* The inner loop of fetch_ics_events over one calendar's occurrences
RECURSIVE ProcessOccurrences(_, _, _, _)
ProcessOccurrences(occs, tz, color, current_dt) ==
  IF occs = <<>> THEN <<>>
  ELSE (IF Keeps(Head(occs), tz, current_dt)
        THEN <<ParsedEvent(Head(occs), tz, color)>> ELSE <<>>)
       \o ProcessOccurrences(Tail(occs), tz, color, current_dt)

\* _has_event_on_date(events, target_date, tz)
StartDateIn(ev, tz) ==
  IF ev.start.kind = "aware"
  THEN DateOf(AsTimezone(FromIsoformat(ev.start), tz))
  ELSE DateOf(Localize(tz, ev.start.wall))

\* an event without start is skipped (`if not start_str`), and so is a
\* start that fromisoformat() rejects (`except ValueError`)
has_event_on_date(events, target_date, tz) ==
  \E i \in 1..Len(events) :
     /\ events[i].start # None
     /\ ~FromIsoformatRaises(events[i].start)
     /\ StartDateIn(events[i], tz) = target_date

\* get_view_range(current_dt): naive midnight of today, and two weeks later
get_view_range(current_dt) ==
  [start |-> 24 * DateOf(current_dt), end |-> 24 * DateOf(current_dt) + 24 * 14]

\* ------------------------------------------------------------------------
\* Strings of the settings
\* ------------------------------------------------------------------------
\* A URL is the sequence of its pieces; " " is one whitespace character.
\* An optional setting is [present, v]: settings.get() of a missing key is
\* None, modelled as present = FALSE.
Missing(v) == [present |-> FALSE, v |-> v]
Given(v)   == [present |-> TRUE, v |-> v]

\* str.strip()
RECURSIVE LStrip(_)
LStrip(s) == IF s # <<>> /\ Head(s) = " " THEN LStrip(Tail(s)) ELSE s
RECURSIVE RStrip(_)
RStrip(s) == IF s # <<>> /\ s[Len(s)] = " " THEN RStrip(SubSeq(s, 1, Len(s) - 1)) ELSE s
Strip(s) == RStrip(LStrip(s))

\* `not x` for an optional list: None and the empty list are falsy
Falsy(opt) == ~opt.present \/ opt.v = <<>>

\* the webcal workaround of fetch_calendar: the URL that is requested
RequestUrl(calendar_url) ==
  IF calendar_url # <<>> /\ Head(calendar_url) = "webcal://"
  THEN [i \in 1..Len(calendar_url) |->
          IF calendar_url[i] = "webcal://" THEN "https://" ELSE calendar_url[i]]
  ELSE calendar_url

\* zip(a, b): as long as the shorter list
ZipLen(a, b) == Min(Len(a), Len(b))

\* faulty variant: a short colour list is padded with the default colour
EffectiveColors_Pad(calendar_colors, calendar_urls) ==
  [i \in 1..Len(calendar_urls) |->
     IF calendar_colors.present /\ i <= Len(calendar_colors.v)
     THEN calendar_colors.v[i] ELSE default_color]

\* generate_image lines 28-31: the colour list handed to fetch_ics_events
EffectiveColors(calendar_colors, calendar_urls) ==
  IF Falsy(calendar_colors) \/ Len(calendar_colors.v) < Len(calendar_urls)
  THEN [i \in 1..Len(calendar_urls) |-> default_color]
  ELSE calendar_colors.v

\* faulty variant: only the missing / empty list is rejected
ConfigError_NoBlankCheck(calendar_urls) ==
  IF Falsy(calendar_urls) THEN "At least one calendar URL is required" ELSE ""

\* generate_image lines 22-26: the RuntimeError raised, or "" when valid
ConfigError(calendar_urls) ==
  IF Falsy(calendar_urls) THEN "At least one calendar URL is required"
  ELSE IF \E i \in 1..Len(calendar_urls.v) : Strip(calendar_urls.v[i]) = <<>>
       THEN "Invalid calendar URL"
       ELSE ""

\* generate_image lines 59-64
LocaleCode(language) ==
  IF ~language.present \/ language.v = "" THEN "en" ELSE language.v

\* ------------------------------------------------------------------------
\* Placeholder injection (generate_image lines 67-105)
\* ------------------------------------------------------------------------
PlaceholderClass == "senior-dashboard-nothing-more"

\* faulty variant: today's placeholder reuses the text of the other days
PlaceholderTitle_SameText(k, labels) == labels.noEventsContent

\* title of the placeholder for agenda day k (0 today, 1 tomorrow, 2 day after)
PlaceholderTitle(k, labels) ==
  IF k = 0 THEN labels.nothingMoreToday ELSE labels.noEventsContent

\* (current_dt + timedelta(days=k)).replace(hour=0, ...).isoformat()
PlaceholderStart(current_dt, k) ==
  IsoFormat(ReplaceMidnight(PlusHours(current_dt, 24 * k)))

Placeholder(current_dt, k, labels) ==
  [title |-> PlaceholderTitle(k, labels),
   start |-> PlaceholderStart(current_dt, k),
   end |-> None,
   backgroundColor |-> default_color,
   textColor |-> get_contrast_color(default_color),
   allDay |-> TRUE,
   classNames |-> {PlaceholderClass}]

\* faulty variant: the placeholder is put in front of the list
AddPlaceholder_InFront(evs, placeholder) == <<placeholder>> \o evs

\* events = list(events) + [placeholder]
AddPlaceholder(evs, placeholder) == evs \o <<placeholder>>

\* one of the three injection blocks
InjectFor(evs, current_dt, tz, k, labels) ==
  IF ~has_event_on_date(evs, DateOf(current_dt) + k, tz)
  THEN AddPlaceholder(evs, Placeholder(current_dt, k, labels))
  ELSE evs

\* ------------------------------------------------------------------------
\* Weather (agenda_weather.py, fetch_weather_data; constants.py)
\* ------------------------------------------------------------------------
\* WEATHER_ICONS, the emoji named by what they show
WEATHER_ICONS ==
  [c \in {0, 1, 2, 3, 45, 48, 51, 53, 55, 61, 63, 65, 71, 73, 75, 80, 81, 82, 95, 96, 99} |->
     CASE c = 0 -> "sun"
       [] c = 1 -> "sun behind small cloud"
       [] c = 2 -> "sun behind cloud"
       [] c = 3 -> "cloud"
       [] c \in {45, 48} -> "fog"
       [] c \in {51, 53, 55, 80} -> "sun behind rain cloud"
       [] c \in {61, 63, 65, 81, 82} -> "cloud with rain"
       [] c \in {71, 73, 75} -> "snowflake"
       [] c \in {95, 96, 99} -> "cloud with lightning and rain"]

\* get_weather_icon(code)
get_weather_icon(code) ==
  IF code \in DOMAIN WEATHER_ICONS THEN WEATHER_ICONS[code] ELSE "question mark"

\* dict.get(key, default) on an optional member
Get(opt, default) == IF opt.present THEN opt.v ELSE default

\* lst[i] if i < len(lst) else 0, with Python's 0-based i
ItemOr0(lst, i) == IF i < Len(lst) THEN lst[i + 1] ELSE 0

\* A latitude/longitude setting: a string that float() accepts (numeric,
\* value in 1/10000 degree), the empty string, or another string.
CoordNumber(e4) == [numeric |-> TRUE, empty |-> FALSE, e4 |-> e4]
CoordEmpty      == [numeric |-> FALSE, empty |-> TRUE, e4 |-> 0]
CoordJunk       == [numeric |-> FALSE, empty |-> FALSE, e4 |-> 0]

DefaultLat == 498728    \* 49.8728
DefaultLon == 86512     \* 8.6512

\* lines 272-276: <<lat, lon>>; a ValueError of either float() resets both
Coordinates(latitude, longitude) ==
  LET unset(c) == ~c.present \/ c.v.empty
      bad(c)   == ~unset(c) /\ ~c.v.numeric
  IN  IF bad(latitude) \/ bad(longitude)
      THEN <<DefaultLat, DefaultLon>>
      ELSE <<IF unset(latitude) THEN DefaultLat ELSE latitude.v.e4,
             IF unset(longitude) THEN DefaultLon ELSE longitude.v.e4>>

\* The JSON document of a successful response:
\*   current_weather : optional [temperature, windspeed, weathercode], each optional
\*   daily           : optional [time, temperature_2m_min, temperature_2m_max,
\*                               precipitation_sum, weathercode], each an optional list
\*   hourly          : optional [time, temperature_2m], each an optional list;
\*                     an hourly time is [date, hour], hour = -1 when the
\*                     characters 11..12 are not a number
NoCurrentPayload ==
  [temperature |-> Missing(0), windspeed |-> Missing(0), weathercode |-> Missing(0)]
NoDailyPayload ==
  [time |-> Missing(<<>>), temperature_2m_min |-> Missing(<<>>),
   temperature_2m_max |-> Missing(<<>>), precipitation_sum |-> Missing(<<>>),
   weathercode |-> Missing(<<>>)]
NoHourlyPayload == [time |-> Missing(<<>>), temperature_2m |-> Missing(<<>>)]

\* The snapshot's members
NoCurrent == Missing([icon |-> "", temperature |-> 0, windspeed |-> 0, weathercode |-> 0])
NoToday ==
  Missing([temp_min |-> Missing(0), temp_max |-> Missing(0), icon |-> "",
           weathercode |-> 0, hourly |-> <<>>])

\* lines 363-366: the dict returned from the except branch
DegradedSnapshot ==
  [keys |-> {"current", "forecast"}, current |-> NoCurrent, today |-> NoToday,
   forecast |-> <<>>]

\* lines 316-325: the hourly slots of today, later entries overwrite earlier
HourSlot(h) == CASE h = 8 -> "8am" [] h = 12 -> "noon" [] h = 15 -> "3pm" [] OTHER -> ""

Matching(times, temps, today_str) ==
  {i \in 1..Len(times) : times[i].date = today_str /\ i - 1 < Len(temps)}

HourlyRaises(times, temps, today_str) ==
  \E i \in Matching(times, temps, today_str) : times[i].hour = -1

HourlyToday(times, temps, today_str) ==
  LET hits == {i \in Matching(times, temps, today_str) : HourSlot(times[i].hour) # ""}
      slots == {HourSlot(times[i].hour) : i \in hits}
      last(s) == CHOOSE i \in hits :
                   /\ HourSlot(times[i].hour) = s
                   /\ \A j \in hits : HourSlot(times[j].hour) = s => j <= i
  IN  [s \in slots |-> temps[last(s)]]

\* lines 294-300
CurrentWeather(data) ==
  LET current == Get(data.current_weather, NoCurrentPayload)
  IN  Given([icon |-> get_weather_icon(Get(current.weathercode, 0)),
             temperature |-> Get(current.temperature, 0),
             windspeed |-> Get(current.windspeed, 0),
             weathercode |-> Get(current.weathercode, 0)])

\* line 306: daily.get("time", [None])[0]; "" stands for None as well
TodayStr(daily) == IF daily.time.present THEN daily.time.v[1] ELSE ""

\* lines 307-333
TodayWeather(data) ==
  LET daily == Get(data.daily, NoDailyPayload)
      today_str == TodayStr(daily)
      temp_min_list == Get(daily.temperature_2m_min, <<>>)
      temp_max_list == Get(daily.temperature_2m_max, <<>>)
      wcode_list == Get(daily.weathercode, <<>>)
      today_code == IF wcode_list # <<>> THEN wcode_list[1] ELSE 0
      hourly == Get(data.hourly, NoHourlyPayload)
  IN  IF today_str = "" THEN NoToday
      ELSE Given([temp_min |-> IF temp_min_list # <<>> THEN Given(temp_min_list[1])
                               ELSE Missing(0),
                  temp_max |-> IF temp_max_list # <<>> THEN Given(temp_max_list[1])
                               ELSE Missing(0),
                  icon |-> get_weather_icon(today_code),
                  weathercode |-> today_code,
                  hourly |-> HourlyToday(Get(hourly.time, <<>>),
                                         Get(hourly.temperature_2m, <<>>), today_str)])

\* lines 336-347: one entry per element of daily["time"][1:3]
Forecast(data, day_labels) ==
  LET daily == Get(data.daily, NoDailyPayload)
      n == IF daily.time.present THEN Min(Len(daily.time.v), 3) - 1 ELSE 0
      entry(i) ==
        [date |-> IF i = 1 THEN day_labels.tomorrow ELSE day_labels.dayAfterTomorrow,
         icon |-> get_weather_icon(ItemOr0(Get(daily.weathercode, <<>>), i)),
         temp_min |-> ItemOr0(Get(daily.temperature_2m_min, <<>>), i),
         temp_max |-> ItemOr0(Get(daily.temperature_2m_max, <<>>), i),
         precipitation |-> ItemOr0(Get(daily.precipitation_sum, <<>>), i),
         weathercode |-> ItemOr0(Get(daily.weathercode, <<>>), i)]
  IN  IF n >= 1 THEN [i \in 1..n |-> entry(i)] ELSE <<>>

\* An exception raised while the document is processed: the IndexError of
\* [0] on an empty daily.time, the ValueError of int() on an hourly time
PayloadRaises(data) ==
  LET daily == Get(data.daily, NoDailyPayload)
      hourly == Get(data.hourly, NoHourlyPayload)
  IN  \/ daily.time.present /\ daily.time.v = <<>>
      \/ /\ daily.time.present
         /\ TodayStr(daily) # ""
         /\ HourlyRaises(Get(hourly.time, <<>>), Get(hourly.temperature_2m, <<>>),
                         TodayStr(daily))

\* A response of the forecast API: status "ok" with its JSON document, or
\* "timeout" / "http_error" (requests.get, raise_for_status) / "bad_json"
\* (response.json())
WeatherFailed(response) == response.status # "ok" \/ PayloadRaises(response.data)

\* faulty variant: the failure leaves fetch_weather_data
OnWeatherFailure_Raise == [raised |-> TRUE, value |-> DegradedSnapshot]

\* what the except branch of fetch_weather_data does with a failure
OnWeatherFailure == [raised |-> FALSE, value |-> DegradedSnapshot]

\* fetch_weather_data: [raised, value]
fetch_weather_data(response, locale_code) ==
  IF WeatherFailed(response) THEN OnWeatherFailure
  ELSE [raised |-> FALSE,
        value |-> [keys |-> {"current", "today", "forecast"},
                   current |-> CurrentWeather(response.data),
                   today |-> TodayWeather(response.data),
                   forecast |-> Forecast(response.data, LabelsFor(locale_code))]]

\* ------------------------------------------------------------------------
\* State
\* ------------------------------------------------------------------------
VARIABLES
  pc,               \* position inside generate_image
  settings,         \* the settings dict of the call
  calendar_colors,  \* the colour list after lines 28-31
  tz,               \* pytz.timezone(timezone)
  current_dt,       \* datetime.now(tz)
  view_range,       \* get_view_range(current_dt)
  next_source,      \* fetch_ics_events: 1-based position in zip(urls, colors)
  requested,        \* the calendar requests sent so far: [source, url]
  parsed_events,    \* fetch_ics_events: its local list
  seen,             \* history: every occurrence the loop has handled, with its source
  origin,           \* history: for each parsed event, its position in seen
  events,           \* generate_image: its local list (None until the fetch returns)
  locale_code,      \* generate_image: locale_code
  weather_requests, \* the weather requests sent so far: the params
  weather_response, \* history: the response of the weather request
  weather,          \* generate_image: weather_data
  image,            \* what render_image returned
  error,            \* the RuntimeError that left generate_image, or ""
  render_args,      \* render_dashboard: its arguments, once it is called
  canvas,           \* render_dashboard: the draw calls made, in order
  helper_args,      \* a helper of the renderer called on its own: its arguments
  helper_result     \* what that helper returned

vars == <<pc, settings, calendar_colors, tz, current_dt, view_range, next_source,
          requested, parsed_events, seen, origin, events, locale_code,
          weather_requests, weather_response, weather, image, error,
          render_args, canvas, helper_args, helper_result>>

\* the state of the PIL renderer
renderVars == <<render_args, canvas>>

\* a helper of the renderer, called on its own
helperVars == <<helper_args, helper_result>>

\* the state of generate_image
callVars == <<pc, settings, calendar_colors, tz, current_dt, view_range, next_source,
              requested, parsed_events, seen, origin, events, locale_code,
              weather_requests, weather_response, weather, image, error>>

NoSettings ==
  [calendarURLs |-> Missing(<<>>), calendarColors |-> Missing(<<>>),
   language |-> Missing(""), latitude |-> Missing(CoordEmpty),
   longitude |-> Missing(CoordEmpty)]

NoResponse == [status |-> "none",
               data |-> [current_weather |-> Missing(NoCurrentPayload),
                         daily |-> Missing(NoDailyPayload),
                         hourly |-> Missing(NoHourlyPayload)]]

Init ==
  /\ pc = "idle"
  /\ settings = NoSettings
  /\ calendar_colors = <<>>
  /\ tz = TzUTC
  /\ current_dt = Now(TzUTC, 0)
  /\ view_range = get_view_range(Now(TzUTC, 0))
  /\ next_source = 0
  /\ requested = <<>>
  /\ parsed_events = <<>>
  /\ seen = <<>>
  /\ origin = <<>>
  /\ events = Missing(<<>>)
  /\ locale_code = ""
  /\ weather_requests = <<>>
  /\ weather_response = NoResponse
  /\ weather = Missing(DegradedSnapshot)
  /\ image = "none"
  /\ error = ""
  /\ render_args = [called |-> FALSE, weather |-> Missing(DegradedSnapshot),
                    units |-> "", time_format |-> "", font_scale |-> 0]
  /\ canvas = <<>>
  /\ helper_args = [fn |-> "none"]
  /\ helper_result = <<>>

\* ------------------------------------------------------------------------
\* generate_image, step by step
\* ------------------------------------------------------------------------
\* Lines 20-43: validation of the URL list, colour defaulting, time window.
\* The settings, the device timezone and the clock are the call's inputs.
Start(settingsSet, zones, clocks) ==
  /\ pc = "idle"
  /\ \E s \in settingsSet :
       /\ settings' = s
       /\ IF ConfigError(s.calendarURLs) # ""
          THEN /\ pc' = "raised"
               /\ error' = ConfigError(s.calendarURLs)
               /\ UNCHANGED <<calendar_colors, tz, current_dt, view_range, next_source>>
          ELSE \E z \in zones, t \in clocks :
                 /\ calendar_colors' = EffectiveColors(s.calendarColors, s.calendarURLs.v)
                 /\ tz' = z
                 /\ current_dt' = Now(z, t)
                 /\ view_range' = get_view_range(Now(z, t))
                 /\ next_source' = 1
                 /\ pc' = "fetch"
                 /\ UNCHANGED error
  /\ UNCHANGED <<requested, parsed_events, seen, origin, events, locale_code,
                 weather_requests, weather_response, weather, image>>
  /\ UNCHANGED <<renderVars, helperVars>>

\* positions (in seen, after `base` earlier entries) of the occurrences kept
RECURSIVE KeptPositions(_, _, _, _)
KeptPositions(occs, zone, now, base) ==
  IF occs = <<>> THEN <<>>
  ELSE (IF Keeps(Head(occs), zone, now) THEN <<base + 1>> ELSE <<>>)
       \o KeptPositions(Tail(occs), zone, now, base + 1)

\* What a calendar URL answers: ok = FALSE for a request that fails
\* (connection error, timeout, HTTP error status, text that is no
\* iCalendar); otherwise the occurrences its expansion yields in the window.
CalendarResponses(occurrences, maxOcc) ==
  {[ok |-> FALSE, occs |-> <<>>]}
  \cup {[ok |-> TRUE, occs |-> occs] : occs \in SeqsUpTo(occurrences, maxOcc)}

\* faulty variant: a failed fetch is swallowed and counts as an empty calendar
fetch_calendar_Swallow(response) == [raised |-> FALSE, occs |-> response.occs]

\* fetch_calendar: every exception becomes a RuntimeError
fetch_calendar(response) == [raised |-> ~response.ok, occs |-> response.occs]

\* Lines 139-189, one iteration of `for calendar_url, color in zip(...)`:
\* fetch_calendar, then the loop over the occurrences of that calendar.
\* After the last source fetch_ics_events returns and lines 50-65 run.
FetchSource(occurrences, maxOcc) ==
  /\ pc = "fetch"
  /\ next_source <= ZipLen(settings.calendarURLs.v, calendar_colors)
  /\ \E response \in CalendarResponses(occurrences, maxOcc) :
       LET cal == fetch_calendar(response)
           last == next_source = ZipLen(settings.calendarURLs.v, calendar_colors)
       IN  /\ requested' = Append(requested,
                 [source |-> next_source,
                  url |-> RequestUrl(settings.calendarURLs.v[next_source]),
                  ok |-> response.ok])
           /\ IF cal.raised
              THEN /\ pc' = "raised"
                   /\ error' = "Failed to fetch iCalendar url"
                   /\ UNCHANGED <<parsed_events, seen, origin, events, locale_code,
                                  next_source>>
              ELSE IF \E i \in 1..Len(cal.occs) : parse_data_points(cal.occs[i], tz).raised
              \* line 150: the TypeError of parse_data_points leaves the loop and
              \* generate_image; the occurrences before it were handled
              THEN LET handled == HandledPrefix(cal.occs, tz)
                   IN  /\ pc' = "raised"
                       /\ error' = TimePlusTimedelta
                       /\ parsed_events' = parsed_events \o
                            ProcessOccurrences(handled, tz, calendar_colors[next_source],
                                               current_dt)
                       /\ seen' = seen \o [i \in 1..Len(handled) |->
                                     [event |-> handled[i], source |-> next_source]]
                       /\ origin' = origin \o
                            KeptPositions(handled, tz, current_dt, Len(seen))
                       /\ UNCHANGED <<events, locale_code, next_source>>
              ELSE /\ parsed_events' = parsed_events \o
                        ProcessOccurrences(cal.occs, tz, calendar_colors[next_source],
                                           current_dt)
                   /\ seen' = seen \o [i \in 1..Len(cal.occs) |->
                                         [event |-> cal.occs[i], source |-> next_source]]
                   /\ origin' = origin \o
                        KeptPositions(cal.occs, tz, current_dt, Len(seen))
                   /\ IF last
                      THEN /\ events' = Given(parsed_events')
                           /\ locale_code' = LocaleCode(settings.language)
                           /\ pc' = "inject_today"
                           /\ UNCHANGED next_source
                      ELSE /\ next_source' = next_source + 1
                           /\ UNCHANGED <<events, locale_code, pc>>
                   /\ UNCHANGED error
  /\ UNCHANGED <<settings, calendar_colors, tz, current_dt, view_range,
                 weather_requests, weather_response, weather, image>>
  /\ UNCHANGED <<renderVars, helperVars>>

\* Lines 67-79, 81-92, 94-105: the three injection blocks
Inject(k, here, there) ==
  /\ pc = here
  /\ events' = Given(InjectFor(events.v, current_dt, tz, k, LabelsFor(locale_code)))
  /\ pc' = there
  /\ UNCHANGED <<settings, calendar_colors, tz, current_dt, view_range, next_source,
                 requested, parsed_events, seen, origin, locale_code,
                 weather_requests, weather_response, weather, image, error>>
  /\ UNCHANGED <<renderVars, helperVars>>

InjectToday    == Inject(0, "inject_today", "inject_tomorrow")
InjectTomorrow == Inject(1, "inject_tomorrow", "inject_day_after")
InjectDayAfter == Inject(2, "inject_day_after", "weather")

\* Lines 107-111: the weather request and its normalisation
WeatherParams ==
  LET c == Coordinates(settings.latitude, settings.longitude)
  IN  [latitude |-> c[1], longitude |-> c[2], forecast_days |-> 3, timezone |-> tz.name]

FetchWeather(responses) ==
  /\ pc = "weather"
  /\ weather_requests' = Append(weather_requests, WeatherParams)
  /\ \E r \in responses :
       LET result == fetch_weather_data(r, locale_code)
       IN  /\ weather_response' = r
           /\ IF result.raised
              THEN /\ pc' = "raised"
                   /\ error' = "Failed to fetch weather data"
                   /\ UNCHANGED weather
              ELSE /\ weather' = Given(result.value)
                   /\ pc' = "render"
                   /\ UNCHANGED error
  /\ UNCHANGED <<settings, calendar_colors, tz, current_dt, view_range, next_source,
                 requested, parsed_events, seen, origin, events, locale_code, image>>
  /\ UNCHANGED <<renderVars, helperVars>>

\* Lines 113-130: render_image of the plugin framework returns an image or
\* nothing; nothing is turned into a RuntimeError
Render ==
  /\ pc = "render"
  /\ \/ /\ image' = "image"
        /\ pc' = "done"
        /\ UNCHANGED error
     \/ /\ pc' = "raised"
        /\ error' = "Failed to take screenshot, please check logs."
        /\ UNCHANGED image
  /\ UNCHANGED <<settings, calendar_colors, tz, current_dt, view_range, next_source,
                 requested, parsed_events, seen, origin, events, locale_code,
                 weather_requests, weather_response, weather>>
  /\ UNCHANGED <<renderVars, helperVars>>

\* ------------------------------------------------------------------------
\* Inputs of the whole-call specification
\* ------------------------------------------------------------------------
UrlHttps  == <<"https://", "example.org/a.ics">>
UrlWebcal == <<"webcal://", "example.org/b.ics">>
Urls == {<<>>, <<" ">>, UrlHttps, UrlWebcal}

ColorLists == {Missing(<<>>), Given(<<>>), Given(<<ColorRed>>),
               Given(<<ColorRed, ColorYellow>>),
               Given(<<ColorRed, ColorYellow, ColorBlack>>)}

Languages == {Missing(""), Given(""), Given("en"), Given("de"), Given("es"),
              Given("fr"), Given("it")}

CoordinatePairs == {<<Missing(CoordEmpty), Missing(CoordEmpty)>>,
                    <<Given(CoordNumber(525200)), Given(CoordNumber(134050))>>,
                    <<Given(CoordNumber(525200)), Given(CoordJunk)>>}

\* The settings of the whole-call specification: every URL list with every
\* colour list, and (for one good URL) every language with every coordinate pair
MainSettings ==
  {[NoSettings EXCEPT !.calendarURLs = u, !.calendarColors = c] :
     u \in {Missing(<<>>)} \cup {Given(x) : x \in SeqsUpTo(Urls, MaxSources)},
     c \in ColorLists}
  \cup
  {[NoSettings EXCEPT !.calendarURLs = Given(<<UrlWebcal>>), !.language = l,
                      !.latitude = p[1], !.longitude = p[2]] :
     l \in Languages, p \in CoordinatePairs}

\* The clock of the whole-call specification: 12:00 UTC of day 2
MainClocks == {60}

\* "Breakfast" today 08:00-09:00 UTC, over at noon; "Doctor" today
\* 14:00-15:00 UTC; "Birthday" all day on day 4; "Alarm", DTSTART a bare
\* time of day with a DURATION
MainOccurrences ==
  {Occurrence("Breakfast", DatetimeValue(56, 0), DatetimeValue(57, 0), FALSE, 0),
   Occurrence("Doctor", DatetimeValue(62, 0), DatetimeValue(63, 0), FALSE, 0),
   Occurrence("Birthday", DateValue(4), DateValue(5), FALSE, 0),
   Occurrence("Alarm", TimeValue(9), NoValue, TRUE, 1)}

FullPayload ==
  [current_weather |-> Given([temperature |-> Given(21), windspeed |-> Given(7),
                              weathercode |-> Given(3)]),
   daily |-> Given([time |-> Given(<<"d2", "d3", "d4">>),
                    temperature_2m_min |-> Given(<<10, 11, 12>>),
                    temperature_2m_max |-> Given(<<20, 21, 22>>),
                    precipitation_sum |-> Given(<<0, 1, 2>>),
                    weathercode |-> Given(<<0, 61, 100>>)]),
   hourly |-> Given([time |-> Given(<<[date |-> "d2", hour |-> 8],
                                      [date |-> "d2", hour |-> 12],
                                      [date |-> "d3", hour |-> 8]>>),
                     temperature_2m |-> Given(<<14, 19, 13>>)])]

\* daily.time is an empty list
EmptyDailyPayload ==
  [FullPayload EXCEPT !.daily = Given([NoDailyPayload EXCEPT !.time = Given(<<>>)])]

\* no current_weather, a daily series of two days
ShortPayload ==
  [current_weather |-> Missing(NoCurrentPayload),
   daily |-> Given([time |-> Given(<<"d2", "d3">>),
                    temperature_2m_min |-> Given(<<10>>),
                    temperature_2m_max |-> Given(<<20, 21>>),
                    precipitation_sum |-> Missing(<<>>),
                    weathercode |-> Given(<<2, 3>>)]),
   hourly |-> Missing(NoHourlyPayload)]

MainResponses ==
  {[status |-> "timeout", data |-> NoResponse.data],
   [status |-> "http_error", data |-> NoResponse.data],
   [status |-> "bad_json", data |-> NoResponse.data],
   [status |-> "ok", data |-> FullPayload],
   [status |-> "ok", data |-> EmptyDailyPayload],
   [status |-> "ok", data |-> ShortPayload]}

\* ------------------------------------------------------------------------
\* The whole call
\* ------------------------------------------------------------------------
Next ==
  \/ Start(MainSettings, {TzUTC}, MainClocks)
  \/ FetchSource(MainOccurrences, MaxOcc)
  \/ InjectToday
  \/ InjectTomorrow
  \/ InjectDayAfter
  \/ FetchWeather(MainResponses)
  \/ Render

Spec == Init /\ [][Next]_vars

\* ------------------------------------------------------------------------
\* The agenda pipeline over time zones, clocks and occurrences
\* ------------------------------------------------------------------------
\* One calendar, one occurrence; every zone above; clocks on three days;
\* occurrences that start at any even hour of the time line in a -11, 0 or
\* +14 zone, or on any day of it.
AgendaSettings ==
  {[NoSettings EXCEPT !.calendarURLs = Given(<<UrlHttps>>)]}

AgendaZones == {TzUTC, TzPagoPago, TzKiritimati, TzNewYorkFall, TzNewYorkSpring}

AgendaClocks == {30, 60, 68}

EvenHours == {h \in 0..(24 * (LastDay + 1) - 1) : h % 2 = 0}

TimedOccurrences ==
  {Occurrence("Meeting", DatetimeValue(h, o), NoValue, FALSE, 0) :
     h \in EvenHours, o \in {-11, 0, 14}}
  \cup {Occurrence("Meeting", DatetimeValue(h, o), DatetimeValue(h + len, o), FALSE, 0) :
     h \in EvenHours, o \in {-11, 0, 14}, len \in {2, 26}}
  \cup {Occurrence("Meeting", DatetimeValue(h, o), NoValue, TRUE, len) :
     h \in EvenHours, o \in {-11, 0, 14}, len \in {2, 26}}

AllDayOccurrences ==
  {Occurrence("Holiday", DateValue(d), NoValue, FALSE, 0) : d \in 0..LastDay}
  \cup {Occurrence("Holiday", DateValue(d), DateValue(d + len), FALSE, 0) :
     d \in 0..LastDay, len \in {1, 2}}
  \cup {Occurrence("Holiday", DateValue(d), NoValue, TRUE, len) :
     d \in 0..LastDay, len \in {24, 48}}

AgendaOccurrences == TimedOccurrences \cup AllDayOccurrences

AgendaNext ==
  \/ Start(AgendaSettings, AgendaZones, AgendaClocks)
  \/ FetchSource(AgendaOccurrences, 1)
  \/ InjectToday
  \/ InjectTomorrow
  \/ InjectDayAfter

SpecAgenda == Init /\ [][AgendaNext]_vars

\* ------------------------------------------------------------------------
\* The filter of fetch_ics_events (C1, C2)
\* ------------------------------------------------------------------------
\* The effective end of an occurrence as the calendar states it: DTEND if
\* present, else DTSTART + DURATION if present, else DTSTART.
EffectiveEnd(o) ==
  IF o.dtend.kind # "absent" THEN o.dtend
  ELSE IF o.hasDuration
       THEN IF o.dtstart.kind = "datetime"
            THEN DatetimeValue(o.dtstart.utc + o.duration, o.dtstart.off)
            ELSE DateValue(o.dtstart.day + (o.duration \div 24))
       ELSE o.dtstart

\* its calendar date in the target timezone
EffectiveEndDate(o, zone) ==
  LET e == EffectiveEnd(o)
  IN  IF e.kind = "datetime" THEN (e.utc + UtcOffset(zone, e.utc)) \div 24 ELSE e.day

Today == DateOf(current_dt)

Handled == 1..Len(seen)
Included(k) == \E i \in 1..Len(origin) : origin[i] = k

\* C1: every occurrence whose effective end date in the target timezone is
\* before today's date is excluded from parsed_events
C1_EndedBeforeTodayExcluded ==
  \A k \in Handled :
    EffectiveEndDate(seen[k].event, tz) < Today => ~Included(k)

\* C1 holds of every occurrence whose end is not computed from DURATION
C1_WithoutDuration ==
  \A k \in Handled :
    (~seen[k].event.hasDuration /\ EffectiveEndDate(seen[k].event, tz) < Today)
      => ~Included(k)

\* C2: a timed occurrence whose effective end date is today is excluded when
\* its end instant is at or before now and included when it is after now; an
\* all-day occurrence ending today is included
C2_EndedTodayRule ==
  \A k \in Handled :
    LET o == seen[k].event
        e == EffectiveEnd(o)
    IN  EffectiveEndDate(o, tz) = Today =>
          IF o.dtstart.kind = "datetime"
          THEN Included(k) <=> (e.utc > current_dt.utc)
          ELSE Included(k)

C2_WithoutDuration ==
  \A k \in Handled :
    LET o == seen[k].event
        e == EffectiveEnd(o)
    IN  (~o.hasDuration /\ EffectiveEndDate(o, tz) = Today) =>
          IF o.dtstart.kind = "datetime"
          THEN Included(k) <=> (e.utc > current_dt.utc)
          ELSE Included(k)

\* ------------------------------------------------------------------------
\* Placeholder injection (C3, C4, C5)
\* ------------------------------------------------------------------------
Injected == pc \in {"weather", "render", "done"}

\* C3: after the injection every agenda day has an event whose start, in the
\* target timezone, falls on that day
C3_EveryAgendaDayHasEvent ==
  Injected => \A k \in 0..2 : has_event_on_date(events.v, Today + k, tz)

\* C3 holds in a zone whose offset does not change
C3_FixedOffsetZones ==
  (Injected /\ tz.before = tz.after)
    => \A k \in 0..2 : has_event_on_date(events.v, Today + k, tz)

\* number of injection blocks that have run
BlocksRun ==
  CASE pc = "inject_today" -> 0
    [] pc = "inject_tomorrow" -> 1
    [] pc = "inject_day_after" -> 2
    [] OTHER -> 3

IsPlaceholder(ev) == PlaceholderClass \in ev.classNames

\* C4: the injection only appends: the fetched events stay, unchanged and in
\* order, at the front of the list; what follows them are placeholders, at
\* most one per injection block that has run (at most 3)
C4_InjectionOnlyAppends ==
  events.present =>
    /\ Len(events.v) >= Len(parsed_events)
    /\ SubSeq(events.v, 1, Len(parsed_events)) = parsed_events
    /\ Len(events.v) - Len(parsed_events) <= BlocksRun
    /\ \A i \in (Len(parsed_events) + 1)..Len(events.v) : IsPlaceholder(events.v[i])

\* a fetched event is followed by two placeholders
C4_Witness ==
  /\ pc = "weather"
  /\ parsed_events # <<>>
  /\ Len(events.v) = Len(parsed_events) + 2

\* the placeholders in the list that stand for agenda day k
PlaceholdersOfDay(k) ==
  {i \in 1..Len(events.v) :
     /\ IsPlaceholder(events.v[i])
     /\ events.v[i].start = PlaceholderStart(current_dt, k)}

\* C5: in every locale, today's placeholder title differs from tomorrow's and
\* the day after's, and those two are equal
C5_TodayTextDiffers ==
  events.present =>
    /\ \A i \in PlaceholdersOfDay(0), j \in PlaceholdersOfDay(1) \cup PlaceholdersOfDay(2) :
         events.v[i].title # events.v[j].title
    /\ \A i \in PlaceholdersOfDay(1), j \in PlaceholdersOfDay(2) :
         events.v[i].title = events.v[j].title

\* all three placeholders injected under an unknown locale code
C5_Witness ==
  /\ pc = "weather"
  /\ locale_code = "it"
  /\ \A k \in 0..2 : PlaceholdersOfDay(k) # {}

\* ------------------------------------------------------------------------
\* Failures and settings of the whole call (C6, C7, C9, C10)
\* ------------------------------------------------------------------------
RequestsTo(i) == {n \in 1..Len(requested) : requested[n].source = i}
CalendarFetchFailed == \E n \in 1..Len(requested) : ~requested[n].ok

\* the call ended in parse_data_points, before the filter saw the occurrence
NormalisationFailed == error = TimePlusTimedelta

\* C6: a calendar fetch that fails, or an occurrence that cannot be
\* normalised, ends the call with an error: the caller gets no events,
\* nothing is injected, no weather request is sent, nothing is rendered;
\* and no source is requested twice
C6_CalendarFailureAbortsCall ==
  /\ \A n \in 1..Len(requested) : RequestsTo(requested[n].source) = {n}
  /\ CalendarFetchFailed =>
       /\ error = "Failed to fetch iCalendar url"
       /\ ~requested[Len(requested)].ok
  /\ (CalendarFetchFailed \/ NormalisationFailed) =>
       /\ pc = "raised"
       /\ ~events.present
       /\ weather_requests = <<>>
       /\ ~weather.present
       /\ image = "none"

\* the second source fails after the first one gave an event
C6_Witness ==
  /\ CalendarFetchFailed
  /\ Len(requested) = 2
  /\ parsed_events # <<>>

WeatherAnswered == weather_response.status # "none"

\* C7: a failed weather fetch does not end the call: the snapshot has no
\* current, no today and an empty forecast, and the call goes on to render
C7_WeatherFailureDegrades ==
  (WeatherAnswered /\ WeatherFailed(weather_response)) =>
    /\ weather.present
    /\ ~weather.v.current.present
    /\ ~weather.v.today.present
    /\ weather.v.forecast = <<>>
    /\ error # "Failed to fetch weather data"
    /\ \/ pc \in {"render", "done"}
       \/ pc = "raised" /\ error = "Failed to take screenshot, please check logs."

\* the forecast document could not be processed, and the image was made
C7_Witness ==
  /\ pc = "done"
  /\ weather_response.status = "ok"
  /\ WeatherFailed(weather_response)
  /\ image = "image"

\* a URL that is empty or whitespace only
IsBlank(url) == \A j \in 1..Len(url) : url[j] = " "

BadUrlList(urls) ==
  \/ ~urls.present
  \/ urls.v = <<>>
  \/ \E i \in 1..Len(urls.v) : IsBlank(urls.v[i])

\* C9: a missing or empty URL list, or a blank URL in it, ends the call
\* with a configuration error before any request, and without an image
C9_ConfigErrorBeforeAnyFetch ==
  (pc # "idle" /\ BadUrlList(settings.calendarURLs)) =>
    /\ pc = "raised"
    /\ error \in {"At least one calendar URL is required", "Invalid calendar URL"}
    /\ requested = <<>>
    /\ weather_requests = <<>>
    /\ image = "none"

\* a good URL followed by a whitespace-only one
C9_Witness ==
  /\ pc = "raised"
  /\ settings.calendarURLs = Given(<<UrlHttps, <<" ">>>>)
  /\ error = "Invalid calendar URL"

FewerColors ==
  \/ ~settings.calendarColors.present
  \/ Len(settings.calendarColors.v) < Len(settings.calendarURLs.v)

SourceOf(i) == seen[origin[i]].source

\* C10: with fewer colours than URLs every event has the colour #007BFF;
\* otherwise an event of the i-th URL has the i-th colour
C10_SourceColourPairing ==
  \A i \in 1..Len(parsed_events) :
    parsed_events[i].backgroundColor =
      IF FewerColors THEN <<0, 0, 7, 11, 15, 15>>
      ELSE settings.calendarColors.v[SourceOf(i)]

\* two URLs and one colour; both sources gave an event
C10_Witness ==
  /\ settings.calendarColors = Given(<<ColorRed>>)
  /\ Len(settings.calendarURLs.v) = 2
  /\ {SourceOf(i) : i \in 1..Len(parsed_events)} = {1, 2}

\* ------------------------------------------------------------------------
\* The PIL renderer (render/pil_renderer.py): weather column
\* ------------------------------------------------------------------------
\* Texts: "deg" stands for the degree sign, "-" for the en dash.  A font
\* scale is kept in tenths (FONT_SIZES 0.7 .. 1.3 are 7 .. 13).

\* int(n * font_scale)
Scaled(n, scale10) == (n * scale10) \div 10

WEATHER_SYMBOLS ==
  [c \in {0, 1, 2, 3, 45, 48, 51, 53, 55, 61, 63, 65, 71, 73, 75, 80, 81, 82, 95, 96, 99} |->
     CASE c = 0 -> "Clear"
       [] c = 1 -> "Mostly Clear"
       [] c = 2 -> "Partly Cloudy"
       [] c = 3 -> "Overcast"
       [] c \in {45, 48} -> "Fog"
       [] c = 51 -> "Light Drizzle"
       [] c = 53 -> "Drizzle"
       [] c = 55 -> "Heavy Drizzle"
       [] c = 61 -> "Light Rain"
       [] c = 63 -> "Rain"
       [] c = 65 -> "Heavy Rain"
       [] c = 71 -> "Light Snow"
       [] c = 73 -> "Snow"
       [] c = 75 -> "Heavy Snow"
       [] c = 80 -> "Showers"
       [] c = 81 -> "Rain Showers"
       [] c = 82 -> "Heavy Showers"
       [] c = 95 -> "Thunderstorm"
       [] c \in {96, 99} -> "T-storm + Hail"]

\* WEATHER_SYMBOLS.get(code, "?")
WeatherSymbol(code) ==
  IF code \in DOMAIN WEATHER_SYMBOLS THEN WEATHER_SYMBOLS[code] ELSE "?"

\* faulty variant: the fraction is cut off instead of rounded
RoundFahrenheit_Floor(c) == (9 * c + 160) \div 5

\* round(celsius * 9 / 5 + 32) for a whole number of degrees
RoundFahrenheit(c) == (2 * (9 * c + 160) + 5) \div 10

\* round(celsius + 273.15) for a whole number of degrees
RoundKelvin(c) == c + 273

\* the number _convert_temp and _convert_temp_short print
ConvertedNumber(c, units) ==
  IF units = "imperial" THEN RoundFahrenheit(c)
  ELSE IF units = "standard" THEN RoundKelvin(c)
  ELSE c

\* _convert_temp(celsius, units); celsius is an optional number
convert_temp(celsius, units) ==
  IF ~celsius.present THEN "--"
  ELSE ToString(ConvertedNumber(celsius.v, units)) \o
       (IF units = "imperial" THEN "degF" ELSE IF units = "standard" THEN "K" ELSE "degC")

\* _convert_temp_short(celsius, units)
convert_temp_short(celsius, units) ==
  IF ~celsius.present THEN "--"
  ELSE ToString(ConvertedNumber(celsius.v, units)) \o "deg"

\* _unit_suffix(units)
unit_suffix(units) ==
  IF units = "imperial" THEN "F" ELSE IF units = "standard" THEN "K" ELSE "C"

\* One draw call: a text or a line at height y.  col is the hourly slot the
\* text stands in (0 elsewhere); the rest of the horizontal placement comes
\* from the font metrics of the drawing library.
DrawText(text, y, font, fill) ==
  [op |-> "text", text |-> text, y |-> y, col |-> 0, font |-> font, fill |-> fill]
DrawSlot(text, y, col, font, fill) ==
  [op |-> "text", text |-> text, y |-> y, col |-> col, font |-> font, fill |-> fill]
DrawLine(y) ==
  [op |-> "line", text |-> "", y |-> y, col |-> 0, font |-> "", fill |-> "LIGHT_GRAY"]

\* `not weather`: None and the empty dict
WeatherFalsy(w) == ~w.present \/ w.v.keys = {}

\* lines 425-435: <<draw calls, new y>>
DrawCurrent(current, units, y, scale10) ==
  IF ~current.present THEN <<<<>>, y>>
  ELSE <<<<DrawText(convert_temp(Given(current.v.temperature), units), y,
                   "big", "fg"),
           DrawText(WeatherSymbol(current.v.weathercode),
                    y + (Scaled(32, scale10) - Scaled(15, scale10)), "sm", "fg")>>,
         y + Scaled(32, scale10) + Scaled(12, scale10)>>

SlotKeys == <<"8am", "noon", "3pm", "8pm">>
SlotLabel(key, time_format) ==
  IF time_format = "12h"
  THEN CASE key = "8am" -> "8am" [] key = "noon" -> "Noon"
         [] key = "3pm" -> "3pm" [] OTHER -> "8pm"
  ELSE CASE key = "8am" -> "08:00" [] key = "noon" -> "12:00"
         [] key = "3pm" -> "15:00" [] OTHER -> "20:00"

\* lines 455-471: the hourly slots, in the order of SlotKeys
RECURSIVE DrawHourly(_, _, _, _, _, _, _)
DrawHourly(hourly, k, col, units, time_format, y, scale10) ==
  IF k > Len(SlotKeys) THEN <<>>
  ELSE IF SlotKeys[k] \in DOMAIN hourly
       THEN <<DrawSlot(SlotLabel(SlotKeys[k], time_format), y, col, "sm", "LIGHT_GRAY"),
              DrawSlot(convert_temp_short(Given(hourly[SlotKeys[k]]), units),
                       y + Scaled(15, scale10) + 2, col, "sm_bold", "fg")>>
            \o DrawHourly(hourly, k + 1, col + 1, units, time_format, y, scale10)
       ELSE DrawHourly(hourly, k + 1, col, units, time_format, y, scale10)

\* lines 437-475: <<draw calls, new y>>
DrawToday(today, units, time_format, y, scale10) ==
  IF ~today.present THEN <<<<>>, y>>
  ELSE
    LET t == today.v
        both == t.temp_min.present /\ t.temp_max.present
        range == IF both
                 THEN <<DrawText(convert_temp_short(t.temp_min, units), y, "med", "BLUE"),
                        DrawText(convert_temp_short(t.temp_max, units) \o unit_suffix(units),
                                 y, "med", "RED")>>
                 ELSE <<>>
        y1 == IF both THEN y + Scaled(20, scale10) + Scaled(6, scale10) ELSE y
        hasHourly == DOMAIN t.hourly # {}
        slots == IF hasHourly
                 THEN DrawHourly(t.hourly, 1, 1, units, time_format, y1, scale10)
                 ELSE <<>>
        y2 == IF hasHourly THEN y1 + Scaled(15, scale10) * 2 + Scaled(8, scale10) ELSE y1
    IN  <<range \o slots \o <<DrawLine(y2)>>, y2 + Scaled(12, scale10)>>

\* lines 477-497
RECURSIVE DrawForecast(_, _, _, _)
DrawForecast(forecast, units, y, scale10) ==
  IF forecast = <<>> THEN <<>>
  ELSE
    LET day == Head(forecast)
        y1 == y + Scaled(15, scale10) + 2
        y2 == y1 + Scaled(15, scale10) + Scaled(12, scale10)
    IN  <<DrawText(day.date, y, "sm_bold", "fg"),
          DrawText(WeatherSymbol(day.weathercode) \o "   "
                     \o convert_temp_short(Given(day.temp_min), units) \o "-"
                     \o convert_temp_short(Given(day.temp_max), units)
                     \o unit_suffix(units),
                   y1, "sm", "fg"),
          DrawLine(y2)>>
        \o DrawForecast(Tail(forecast), units, y2 + Scaled(12, scale10), scale10)

\* _draw_weather(draw, weather, units, ..., y, ..., font_scale): its draw calls
draw_weather(w, units, time_format, y, scale10) ==
  IF WeatherFalsy(w)
  THEN <<DrawText("No weather data", y, "sm", "LIGHT_GRAY")>>
  ELSE
    LET current == IF "current" \in w.v.keys THEN w.v.current ELSE NoCurrent
        today   == IF "today" \in w.v.keys THEN w.v.today ELSE NoToday
        c == DrawCurrent(current, units, y, scale10)
        t == DrawToday(today, units, time_format, c[2], scale10)
    IN  c[1] \o t[1] \o DrawForecast(w.v.forecast, units, t[2], scale10)

\* ------------------------------------------------------------------------
\* render_dashboard: fonts and layout
\* ------------------------------------------------------------------------
\* FONT_SIZES of constants.py, in tenths
FontScales == {7, 8, 9, 10, 11, 12, 13}

\* ------------------------------------------------------------------------
\* The filter on timestamps that do not parse (C11)
\* ------------------------------------------------------------------------
\* One calendar that yields up to MaxOcc + 1 occurrences, among them two
\* whose filtering timestamp carries no date: "Broken end" (today 08:00,
\* DTEND a bare time of day) and "Broken start" (DTSTART a bare time of
\* day, no DTEND); next to them "Broken sum" (DTSTART a bare time of day
\* with a DURATION), an occurrence over at noon, one still ahead, and an
\* all-day occurrence of yesterday.
FilterZones == {TzUTC, TzPagoPago, TzKiritimati}

FilterClocks == {60}

FilterOccurrences ==
  {Occurrence("Broken end", DatetimeValue(56, 0), TimeValue(9), FALSE, 0),
   Occurrence("Broken start", TimeValue(9), NoValue, FALSE, 0),
   Occurrence("Broken sum", TimeValue(9), NoValue, TRUE, 1),
   Occurrence("Breakfast", DatetimeValue(56, 0), DatetimeValue(57, 0), FALSE, 0),
   Occurrence("Doctor", DatetimeValue(62, 0), DatetimeValue(63, 0), FALSE, 0),
   Occurrence("Holiday", DateValue(1), DateValue(2), FALSE, 0)}

FilterNext ==
  \/ Start(AgendaSettings, FilterZones, FilterClocks)
  \/ FetchSource(FilterOccurrences, MaxOcc + 1)
  \/ InjectToday
  \/ InjectTomorrow
  \/ InjectDayAfter

SpecFilter == Init /\ [][FilterNext]_vars

\* the timestamp the filter reads (DTEND, else DTSTART + DURATION, else
\* DTSTART) is a bare time of day
Unparsable(o) ==
  \/ o.dtend.kind = "time"
  \/ o.dtend.kind = "absent" /\ ~o.hasDuration /\ o.dtstart.kind = "time"

RECURSIVE Parsable(_)
Parsable(entries) ==
  IF entries = <<>> THEN <<>>
  ELSE (IF Unparsable(Head(entries).event) THEN <<>> ELSE <<Head(entries).event>>)
       \o Parsable(Tail(entries))

\* the events of the result that stem from occurrences whose timestamp parses
RECURSIVE FromParsable(_)
FromParsable(n) ==
  IF n = 0 THEN <<>>
  ELSE FromParsable(n - 1)
       \o (IF Unparsable(seen[origin[n]].event) THEN <<>> ELSE <<parsed_events[n]>>)

\* C11: an occurrence whose timestamp does not parse during filtering is
\* kept in the result, with its title; it does not end the call; and the
\* result for the other occurrences is what the filter gives without it
C11_UnparsableKept ==
  /\ \A i \in 1..Len(seen) :
       Unparsable(seen[i].event)
         => \E n \in 1..Len(origin) :
              /\ origin[n] = i
              /\ parsed_events[n].title = seen[i].event.summary
  /\ pc = "raised" => CalendarFetchFailed \/ NormalisationFailed
  /\ Len(origin) = Len(parsed_events)
  /\ FromParsable(Len(parsed_events))
       = ProcessOccurrences(Parsable(seen), tz, calendar_colors[1], current_dt)

\* an occurrence without a parsable timestamp and one that is dropped have
\* gone through the filter of the same calendar
C11_Witness ==
  /\ pc = "inject_today"
  /\ \E i, j \in 1..Len(seen) :
       /\ Unparsable(seen[i].event)
       /\ seen[j].event.summary = "Breakfast"
       /\ Len(parsed_events) = 1

\* ------------------------------------------------------------------------
\* _truncate_text (pil_renderer.py)
\* ------------------------------------------------------------------------
MaxText  == 3      \* longest text, in characters
MaxWidth == 8      \* widest column, in pixels

\* A text is the sequence of its characters.  A font gives every character
\* its advance in pixels; draw.textbbox((0, 0), text, font=font)[2] is the
\* right edge of the text: the sum of the advances.
Ellipsis == "..."

Characters == {"i", "m"}

FontRegular == [c \in Characters \cup {Ellipsis} |->
                  IF c = "i" THEN 1 ELSE IF c = "m" THEN 3 ELSE 2]
FontBold    == [c \in Characters \cup {Ellipsis} |->
                  IF c = "i" THEN 2 ELSE IF c = "m" THEN 4 ELSE 3]

RECURSIVE TextWidth(_, _)
TextWidth(text, font) ==
  IF text = <<>> THEN 0
  ELSE font[Head(text)] + TextWidth(Tail(text), font)

\* the `while len(text) > 1` loop of _truncate_text
RECURSIVE Shorten(_, _, _)
Shorten(text, font, max_w) ==
  IF Len(text) > 1
  THEN LET shorter == SubSeq(text, 1, Len(text) - 1)
       IN  IF TextWidth(Append(shorter, Ellipsis), font) <= max_w
           THEN Append(shorter, Ellipsis)
           ELSE Shorten(shorter, font, max_w)
  ELSE <<Ellipsis>>

truncate_text(text, font, max_w) ==
  IF TextWidth(text, font) <= max_w THEN text ELSE Shorten(text, font, max_w)

\* _truncate_text called on its own; _draw_event_row calls it with max_w > 0
TruncateText ==
  /\ helper_args.fn = "none"
  /\ \E text \in SeqsUpTo(Characters, MaxText), font \in {FontRegular, FontBold},
        max_w \in 1..MaxWidth :
       /\ helper_args' = [fn |-> "_truncate_text", text |-> text, font |-> font,
                          max_w |-> max_w]
       /\ helper_result' = truncate_text(text, font, max_w)
  /\ UNCHANGED <<callVars, renderVars>>

SpecTruncate == Init /\ [][TruncateText]_vars

\* ------------------------------------------------------------------------
\* Truncation (C12)
\* ------------------------------------------------------------------------
Truncated == helper_args.fn = "_truncate_text"

Fits(text) == TextWidth(text, helper_args.font) <= helper_args.max_w

EndsWithEllipsis(text) == text # <<>> /\ text[Len(text)] = Ellipsis

\* the prefixes of the argument, shorter than it and not empty, that fit
\* together with the ellipsis
FittingPrefixes ==
  {n \in 1..(Len(helper_args.text) - 1) :
     Fits(Append(SubSeq(helper_args.text, 1, n), Ellipsis))}

\* the result is the longest fitting prefix plus the ellipsis, or the bare
\* ellipsis when no prefix fits
LongestPrefixKept ==
  IF FittingPrefixes = {} THEN helper_result = <<Ellipsis>>
  ELSE \E n \in FittingPrefixes :
         /\ \A k \in FittingPrefixes : k <= n
         /\ helper_result = Append(SubSeq(helper_args.text, 1, n), Ellipsis)

\* C12: a text that fits is returned unchanged; otherwise the result ends
\* with the ellipsis, is not wider than the available width (the bare
\* ellipsis included), and keeps the longest prefix that fits with the
\* ellipsis
C12_TruncatedNeverTooWide ==
  Truncated =>
    IF Fits(helper_args.text) THEN helper_result = helper_args.text
    ELSE /\ EndsWithEllipsis(helper_result)
         /\ Fits(helper_result)
         /\ LongestPrefixKept

\* the same, with the width bound only for a result that keeps a prefix
C12_ExceptBareEllipsis ==
  Truncated =>
    IF Fits(helper_args.text) THEN helper_result = helper_args.text
    ELSE /\ EndsWithEllipsis(helper_result)
         /\ (helper_result # <<Ellipsis>> => Fits(helper_result))
         /\ LongestPrefixKept

\* ------------------------------------------------------------------------
\* The call over background colours
\* ------------------------------------------------------------------------
\* One calendar whose colour is any "#RRGGBB" with each byte one of
\* 0x00, 0x80, 0x95, 0x96, 0xFF; #969696 has (299r+587g+114b)/1000 = 150.
ByteValues == {0, 128, 149, 150, 255}

\* "#RRGGBB" of three bytes
ColorOf(r, g, b) == <<r \div 16, r % 16, g \div 16, g % 16, b \div 16, b % 16>>

ContrastColors == {ColorOf(r, g, b) : r \in ByteValues, g \in ByteValues, b \in ByteValues}

ColorSettings ==
  {[NoSettings EXCEPT !.calendarURLs = Given(<<UrlHttps>>),
                      !.calendarColors = Given(<<c>>)] : c \in ContrastColors}

ColorsNext ==
  \/ Start(ColorSettings, {TzUTC}, MainClocks)
  \/ FetchSource(MainOccurrences, MaxOcc)
  \/ InjectToday
  \/ InjectTomorrow
  \/ InjectDayAfter

SpecColors == Init /\ [][ColorsNext]_vars

\* ------------------------------------------------------------------------
\* Text colour (C13)
\* ------------------------------------------------------------------------
\* 1000 times the weighted luminance of "#RRGGBB"
Luminance1000(c) ==
  299 * (16 * c[1] + c[2]) + 587 * (16 * c[3] + c[4]) + 114 * (16 * c[5] + c[6])

HasContrastColor(ev) ==
  /\ Luminance1000(ev.backgroundColor) >= 150 * 1000 => ev.textColor = ColorBlack
  /\ Luminance1000(ev.backgroundColor) < 150 * 1000 => ev.textColor = ColorWhite

\* C13: the text colour of every event of the aggregator and of every
\* placeholder is black when the luminance of its background is at least
\* 150 and white otherwise: black at exactly 150 and on #FFFFFF, white on
\* #000000
C13_TextColourByLuminance ==
  /\ \A i \in 1..Len(parsed_events) : HasContrastColor(parsed_events[i])
  /\ events.present => \A i \in 1..Len(events.v) : HasContrastColor(events.v[i])

\* an event on #969696 (luminance exactly 150) with black text, next to a
\* placeholder
C13_Witness ==
  /\ pc = "weather"
  /\ \E i, j \in 1..Len(events.v) :
       /\ events.v[i].backgroundColor = ColorOf(150, 150, 150)
       /\ events.v[i].textColor = ColorBlack
       /\ IsPlaceholder(events.v[j])

\* ------------------------------------------------------------------------
\* The call over daily series of the forecast API
\* ------------------------------------------------------------------------
MaxDays == 4       \* longest daily series of a response

DayNames    == <<"d2", "d3", "d4", "d5", "d6", "d7">>
DailyMin    == <<10, 11, 12, 13, 14, 15>>
DailyMax    == <<20, 21, 22, 23, 24, 25>>
DailyPrecip == <<0, 1, 2, 3, 4, 5>>
DailyCode   == <<0, 61, 95, 3, 45, 2>>

FirstN(s, n) == SubSeq(s, 1, n)

\* a document whose daily.time has n days and whose value lists have m entries
SeriesPayload(n, m) ==
  [FullPayload EXCEPT !.daily =
     Given([time |-> Given(FirstN(DayNames, n)),
            temperature_2m_min |-> Given(FirstN(DailyMin, m)),
            temperature_2m_max |-> Given(FirstN(DailyMax, m)),
            precipitation_sum |-> Given(FirstN(DailyPrecip, m)),
            weathercode |-> Given(FirstN(DailyCode, m))])]

\* documents without "daily", and with a "daily" that has no "time"
NoDailyDocument == [FullPayload EXCEPT !.daily = Missing(NoDailyPayload)]
NoTimeDocument ==
  [FullPayload EXCEPT !.daily = Given([FullPayload.daily.v EXCEPT !.time = Missing(<<>>)])]

SeriesResponses ==
  {[status |-> "timeout", data |-> NoResponse.data]}
  \cup {[status |-> "ok", data |-> d] :
          d \in {NoDailyDocument, NoTimeDocument}
                \cup {SeriesPayload(n, m) : n \in 0..MaxDays, m \in 0..MaxDays}}

WeatherSettings ==
  {[NoSettings EXCEPT !.calendarURLs = Given(<<UrlHttps>>), !.language = l] :
     l \in Languages}

WeatherNext ==
  \/ Start(WeatherSettings, {TzUTC}, MainClocks)
  \/ FetchSource({}, 0)
  \/ InjectToday
  \/ InjectTomorrow
  \/ InjectDayAfter
  \/ FetchWeather(SeriesResponses)
  \/ Render

SpecWeather == Init /\ [][WeatherNext]_vars

\* ------------------------------------------------------------------------
\* The forecast of the snapshot (C14)
\* ------------------------------------------------------------------------
\* the provider answered with a document, and fetch_weather_data returned
Answered == weather.present /\ weather_response.status = "ok"

AnsweredDaily == Get(weather_response.data.daily, NoDailyPayload)

\* the number of days of the daily series of the response
SeriesDays == IF AnsweredDaily.time.present THEN Len(AnsweredDaily.time.v) ELSE 0

\* element i (0-based) of a value list of the response, 0 when it has none
ValueAt(list, i) == IF list.present /\ i < Len(list.v) THEN list.v[i + 1] ELSE 0

\* entry k (0-based) of the forecast carries index k + 1 of the series
CarriesIndex(entry, k) ==
  /\ entry.date = (IF k = 0 THEN LabelsFor(locale_code).tomorrow
                   ELSE LabelsFor(locale_code).dayAfterTomorrow)
  /\ entry.temp_min = ValueAt(AnsweredDaily.temperature_2m_min, k + 1)
  /\ entry.temp_max = ValueAt(AnsweredDaily.temperature_2m_max, k + 1)
  /\ entry.precipitation = ValueAt(AnsweredDaily.precipitation_sum, k + 1)
  /\ entry.weathercode = ValueAt(AnsweredDaily.weathercode, k + 1)
  /\ entry.icon = get_weather_icon(entry.weathercode)

\* today carries index 0 of the series
TodayFromIndex0 ==
  SeriesDays >= 1 =>
    /\ weather.v.today.present
    /\ AnsweredDaily.temperature_2m_min.v # <<>> =>
         weather.v.today.v.temp_min = Given(AnsweredDaily.temperature_2m_min.v[1])
    /\ AnsweredDaily.temperature_2m_max.v # <<>> =>
         weather.v.today.v.temp_max = Given(AnsweredDaily.temperature_2m_max.v[1])
    /\ weather.v.today.v.weathercode = ValueAt(AnsweredDaily.weathercode, 0)

ForecastFromSeries ==
  /\ Len(weather.v.forecast) = (IF SeriesDays >= 3 THEN 2
                                ELSE IF SeriesDays = 2 THEN 1 ELSE 0)
  /\ \A k \in 0..(Len(weather.v.forecast) - 1) :
       CarriesIndex(weather.v.forecast[k + 1], k)

\* C14: when the provider answers, the forecast has 0 to 2 entries, entry 0
\* from index 1 of the daily series labelled tomorrow, entry 1 from index 2
\* labelled day after tomorrow; today comes from index 0; and a series of
\* fewer than 3 days shortens the forecast without the fetch failing (the
\* current weather is still in the snapshot)
C14_ForecastFromDailySeries ==
  Answered =>
    /\ ForecastFromSeries
    /\ TodayFromIndex0
    /\ weather.v.current.present

\* the same for every response but the one whose daily series is empty
C14_NonEmptySeries ==
  (Answered /\ ~(AnsweredDaily.time.present /\ SeriesDays = 0)) =>
    /\ ForecastFromSeries
    /\ TodayFromIndex0
    /\ weather.v.current.present

\* ------------------------------------------------------------------------
\* _convert_temp and _convert_temp_short called on their own
\* ------------------------------------------------------------------------
MaxCelsius == 40     \* temperatures are -MaxCelsius .. MaxCelsius, or None

Temperatures == {Missing(0)} \cup {Given(c) : c \in (0 - MaxCelsius)..MaxCelsius}

UnitSystems == {"metric", "imperial", "standard"}

ConvertTemp ==
  /\ helper_args.fn = "none"
  /\ \E celsius \in Temperatures, units \in UnitSystems :
       /\ helper_args' = [fn |-> "_convert_temp", celsius |-> celsius, units |-> units]
       /\ helper_result' = convert_temp(celsius, units)
  /\ UNCHANGED <<callVars, renderVars>>

ConvertTempShort ==
  /\ helper_args.fn = "none"
  /\ \E celsius \in Temperatures, units \in UnitSystems :
       /\ helper_args' = [fn |-> "_convert_temp_short", celsius |-> celsius,
                          units |-> units]
       /\ helper_result' = convert_temp_short(celsius, units)
  /\ UNCHANGED <<callVars, renderVars>>

ConvertNext == ConvertTemp \/ ConvertTempShort

SpecConvert == Init /\ [][ConvertNext]_vars

\* ------------------------------------------------------------------------
\* Temperature display (C15)
\* ------------------------------------------------------------------------
Converted == helper_args.fn \in {"_convert_temp", "_convert_temp_short"}

\* n is the whole number nearest to c * 9 / 5 + 32 (never half way for a
\* whole c), to c + 273.15, or c itself
DisplaysNumber(n, c, units) ==
  IF units = "imperial" THEN 5 * n - (9 * c + 160) \in -2..2
  ELSE IF units = "standard" THEN n = c + 273
  ELSE n = c

UnitLetters(units) ==
  IF units = "imperial" THEN "degF" ELSE IF units = "standard" THEN "K" ELSE "degC"

ExpectedSuffix ==
  IF helper_args.fn = "_convert_temp" THEN UnitLetters(helper_args.units) ELSE "deg"

\* C15: a whole Celsius temperature is displayed as itself with the suffix
\* of Celsius (metric), as round(c*9/5+32) with that of Fahrenheit
\* (imperial), as round(c+273.15) with K (standard): 0 gives 32 and 273;
\* the short form shows the same number with the degree sign only; an
\* absent temperature is displayed as "--"
C15_TemperatureDisplay ==
  Converted =>
    IF ~helper_args.celsius.present THEN helper_result = "--"
    ELSE /\ \E n \in (0 - 4 * MaxCelsius)..(8 * MaxCelsius) :
              /\ DisplaysNumber(n, helper_args.celsius.v, helper_args.units)
              /\ helper_result = ToString(n) \o ExpectedSuffix
         /\ helper_args.celsius.v = 0 =>
              helper_result = (IF helper_args.units = "imperial" THEN "32"
                               ELSE IF helper_args.units = "standard" THEN "273"
                               ELSE "0") \o ExpectedSuffix

\* 1 degree Celsius in Fahrenheit: 33.8 is displayed as 34
C15_Witness ==
  /\ helper_args.fn = "_convert_temp"
  /\ helper_args.celsius = Given(1)
  /\ helper_args.units = "imperial"
  /\ helper_result = "34degF"

\* ------------------------------------------------------------------------
\* The order of the steps of generate_image (C16)
\* ------------------------------------------------------------------------
\* a step that sends a calendar request / the weather request / appends a
\* placeholder to the fetched events / returns the rendered image
CalendarRequestStep == requested' # requested
WeatherRequestStep  == weather_requests' # weather_requests
InjectionStep       == events.present /\ events' # events
RenderStep          == image' # image

\* validation and time window come first, the calendar fetch before the
\* weather fetch, and the render is the last step of the call
OrderOfTheOtherSteps ==
  /\ CalendarRequestStep =>
       /\ ConfigError(settings.calendarURLs) = ""
       /\ view_range = get_view_range(current_dt)
       /\ weather_requests = <<>>
  /\ WeatherRequestStep => events.present /\ ~CalendarFetchFailed
  /\ RenderStep => weather.present /\ events.present
  /\ image = "none"

\* C16: the steps run in the order validation, time window, calendar fetch,
\* weather fetch, placeholder injection, render: a placeholder is appended
\* only after the weather request has been issued
C16_WeatherBeforeInjection ==
  [][/\ OrderOfTheOtherSteps
     /\ InjectionStep => weather_requests # <<>>]_vars

\* the order of the code: the placeholders are appended before the weather
\* request is issued, and none after it
C16_InjectionBeforeWeather ==
  [][/\ OrderOfTheOtherSteps
     /\ InjectionStep => weather_requests = <<>>]_vars

\* ------------------------------------------------------------------------
\* PIL renderer: the events of one agenda day (_events_for_date)
\* ------------------------------------------------------------------------
\* The "+HH:MM" / "-HH:MM" suffix of an ISO string in string order: "+"
\* sorts before "-", then the digits
OffsetRank(off) == IF off >= 0 THEN off ELSE 100 - off

\* a < b for two ISO strings, as Python compares str: date and time digits
\* first; "YYYY-MM-DD" is a prefix of every string of that day; then the
\* offset suffix
IsoLess(a, b) ==
  \/ a.wall < b.wall
  \/ /\ a.wall = b.wall
     /\ \/ a.kind = "date" /\ b.kind # "date"
        \/ a.kind # "date" /\ b.kind # "date" /\ OffsetRank(a.off) < OffsetRank(b.off)

\* key=lambda e: (0 if e.get("allDay") else 1, e.get("start", ""))
KeyLess(a, b) ==
  LET rank(e) == IF e.allDay THEN 0 ELSE 1
  IN  \/ rank(a) < rank(b)
      \/ rank(a) = rank(b) /\ IsoLess(a.start, b.start)

\* list.sort(key=...) is stable: an element goes behind every element that
\* is not greater than it
RECURSIVE InsertSorted(_, _)
InsertSorted(sorted, e) ==
  IF sorted = <<>> THEN <<e>>
  ELSE IF KeyLess(e, sorted[Len(sorted)])
       THEN Append(InsertSorted(SubSeq(sorted, 1, Len(sorted) - 1), e),
                   sorted[Len(sorted)])
       ELSE Append(sorted, e)

RECURSIVE SortByKey(_)
SortByKey(evs) ==
  IF evs = <<>> THEN <<>>
  ELSE InsertSorted(SortByKey(SubSeq(evs, 1, Len(evs) - 1)), evs[Len(evs)])

\* the loop body of _events_for_date: TRUE when ev is appended to result
OnDate(ev, date, zone) ==
  /\ ev.start # None
  /\ ~FromIsoformatRaises(ev.start)
  /\ StartDateIn(ev, zone) = date

RECURSIVE SelectOnDate(_, _, _)
SelectOnDate(evs, date, zone) ==
  IF evs = <<>> THEN <<>>
  ELSE (IF OnDate(Head(evs), date, zone) THEN <<Head(evs)>> ELSE <<>>)
       \o SelectOnDate(Tail(evs), date, zone)

events_for_date(evs, date, zone) == SortByKey(SelectOnDate(evs, date, zone))

\* ------------------------------------------------------------------------
\* PIL renderer: one event row (_draw_event_row, _format_event_time)
\* ------------------------------------------------------------------------
\* dt.strftime("%-I:%M %p").lower() and dt.strftime("%H:%M") at a full hour
Strftime12(h) ==
  ToString(IF h % 12 = 0 THEN 12 ELSE h % 12) \o ":00 " \o (IF h < 12 THEN "am" ELSE "pm")
Strftime24(h) == (IF h < 10 THEN "0" ELSE "") \o ToString(h) \o ":00"

\* _format_event_time(ev, time_format, timezone_str): "" when the start is
\* missing or does not parse (`except Exception`)
format_event_time(ev, time_format, zone) ==
  IF ev.start = None \/ FromIsoformatRaises(ev.start) THEN ""
  ELSE LET dt == IF ev.start.kind = "aware" THEN AsTimezone(FromIsoformat(ev.start), zone)
                 ELSE Localize(zone, ev.start.wall)
           h  == Wall(dt) % 24
       IN  IF time_format = "12h" THEN Strftime12(h) ELSE Strftime24(h)

\* lines 327-352: the time label of the row
TimeLabel(ev, time_format, zone) ==
  LET is_placeholder == PlaceholderClass \in ev.classNames
  IN  IF ev.allDay /\ ~is_placeholder THEN "All day"
      ELSE IF is_placeholder THEN ""
      ELSE format_event_time(ev, time_format, zone)

\* draw.textbbox of a time label, a string: the sum of the advances of its
\* characters; a character the font table does not list is as wide as "i"
RECURSIVE LabelWidth(_, _)
LabelWidth(label, font) ==
  IF label = "" THEN 0
  ELSE LET c == SubSeq(label, 1, 1)
       IN  (IF c \in Characters THEN font[c] ELSE font["i"])
           + LabelWidth(SubSeq(label, 2, Len(label)), font)

RowDot(x, y, fill) == [op |-> "ellipse", text |-> <<>>, x |-> x, y |-> y, fill |-> fill]
RowText(text, x, y, font, fill) ==
  [op |-> "text", text |-> text, x |-> x, y |-> y, font |-> font, fill |-> fill]

\* _draw_event_row: [draws, y], y the new cursor.  The title of an event is
\* the sequence of its characters.
draw_event_row(ev, time_format, zone, x0, y, x1, line_h, event_padding, padding) ==
  LET dot_r    == 5
      dot_x    == x0 + padding + dot_r
      dot_y    == y + event_padding + line_h \div 2
      text_x   == dot_x + dot_r + padding
      time_str == TimeLabel(ev, time_format, zone)
      time_w   == LabelWidth(time_str, FontRegular) + padding
      title_x  == IF time_str # "" THEN text_x + time_w ELSE text_x
      max_title_w == x1 - title_x - padding
  IN  [draws |->
         <<RowDot(dot_x, dot_y, ev.backgroundColor)>>
         \o (IF time_str # ""
             THEN <<RowText(time_str, text_x, y + event_padding, "font", "LIGHT_GRAY")>>
             ELSE <<>>)
         \o (IF max_title_w > 0
             THEN <<RowText(truncate_text(ev.title, FontBold, max_title_w), title_x,
                            y + event_padding, "font_bold", "fg")>>
             ELSE <<>>),
       y |-> y + line_h + event_padding]

\* ------------------------------------------------------------------------
\* PIL renderer: the calendar column (_draw_calendar)
\* ------------------------------------------------------------------------
\* What one pass of the loops draws: the header of agenda day `day`, one
\* event row, or the text of an empty day; top is the cursor y before it,
\* cursor the cursor after it, draws its draw calls.
CalendarItem(item, day, top, cursor, draws) ==
  [item |-> item, day |-> day, top |-> top, cursor |-> cursor, draws |-> draws]

\* labels.get(key, default) of the three day labels
DayLabel(labels, i) ==
  IF i = 0 THEN labels.today ELSE IF i = 1 THEN labels.tomorrow
  ELSE labels.dayAfterTomorrow

\* lines 255-262: the header of day i at y
DrawHeader(labels, i, date, x0, y, x1, padding, scale10) ==
  LET header_h == Scaled(28, scale10)
  IN  <<[op |-> "rectangle", text |-> <<>>, x |-> x0, y |-> y,
         fill |-> IF i = 0 THEN "GREEN" ELSE "BLUE"],
        RowText(<<DayLabel(labels, i), date>>, x0 + padding,
                y + (header_h - Scaled(20, scale10)) \div 2, "font_header", "WHITE")>>

\* lines 276-284: the rows of one day, from event n on
RECURSIVE DrawRows(_, _, _, _, _, _, _, _, _, _)
DrawRows(day_events, n, i, time_format, zone, x0, y, x1, y_max, scale10) ==
  LET event_line_h  == Scaled(24, scale10)
      event_padding == Scaled(4, scale10)
      padding       == Scaled(10, scale10)
  IN  IF n > Len(day_events) \/ y + event_line_h > y_max
      THEN [items |-> <<>>, y |-> y]
      ELSE LET row  == draw_event_row(day_events[n], time_format, zone, x0, y, x1,
                                      event_line_h, event_padding, padding)
               rest == DrawRows(day_events, n + 1, i, time_format, zone, x0, row.y, x1,
                                y_max, scale10)
           IN  [items |-> <<CalendarItem("row", i, y, row.y, row.draws)>> \o rest.items,
                y |-> rest.y]

\* lines 250-287: the loop over the three days, from day i on
RECURSIVE DrawDays(_, _, _, _, _, _, _, _, _, _, _)
DrawDays(evs, i, now, zone, time_format, labels, x0, y, x1, y_max, scale10) ==
  LET header_h      == Scaled(28, scale10)
      event_line_h  == Scaled(24, scale10)
      event_padding == Scaled(4, scale10)
      padding       == Scaled(10, scale10)
      date          == DateOf(now) + i
      day_events    == events_for_date(evs, date, zone)
  IN  IF i > 2 \/ y + header_h > y_max
      THEN [items |-> <<>>, y |-> y]
      ELSE LET header == CalendarItem("header", i, y, y + header_h,
                           DrawHeader(labels, i, date, x0, y, x1, padding, scale10))
               body ==
                 IF day_events = <<>>
                 THEN [items |-> <<CalendarItem("empty", i, y + header_h,
                                     y + header_h + event_line_h + event_padding,
                                     <<RowText(labels.noEventsContent, x0 + padding,
                                               y + header_h + event_padding,
                                               "font_event", "LIGHT_GRAY")>>)>>,
                       y |-> y + header_h + event_line_h + event_padding]
                 ELSE DrawRows(day_events, 1, i, time_format, zone, x0, y + header_h,
                               x1, y_max, scale10)
               rest == DrawDays(evs, i + 1, now, zone, time_format, labels, x0,
                                body.y + Scaled(4, scale10), x1, y_max, scale10)
           IN  [items |-> <<header>> \o body.items \o rest.items, y |-> rest.y]

\* _draw_calendar: [items, y], y the final cursor
draw_calendar(evs, now, zone, time_format, labels, x0, y0, x1, y_max, scale10) ==
  DrawDays(evs, 0, now, zone, time_format, labels, x0, y0, x1, y_max, scale10)

\* ------------------------------------------------------------------------
\* render_dashboard: the calendar column
\* ------------------------------------------------------------------------
MaxRows   == 2       \* longest event list handed to the renderer
MaxHeight == 360     \* tallest display, in pixels

\* An event as the renderer reads it; its title is a sequence of characters
RowEvent(title, start, allDay, classNames) ==
  [title |-> title, start |-> start, end |-> None,
   backgroundColor |-> default_color,
   textColor |-> get_contrast_color(default_color),
   allDay |-> allDay, classNames |-> classNames]

\* The renderer's clock: 12:00 UTC of day 2
RenderClock == Now(TzUTC, 60)

\* today 14:00, today all day, tomorrow 09:00, a placeholder for the day
\* after tomorrow, and an event four days ahead
CalendarEvents ==
  {RowEvent(<<"m", "i">>, IsoFormat(Now(TzUTC, 62)), FALSE, {}),
   RowEvent(<<"i", "i">>, IsoFormatDate(2), TRUE, {}),
   RowEvent(<<"m", "m">>, IsoFormat(Now(TzUTC, 81)), FALSE, {}),
   RowEvent(<<"i", "m", "i">>, PlaceholderStart(RenderClock, 2), TRUE, {PlaceholderClass}),
   RowEvent(<<"m">>, IsoFormat(Now(TzUTC, 150)), FALSE, {})}

DisplayWidths  == {100, 800}
DisplayHeights == 40..MaxHeight

\* render_dashboard lines 136-152: the calendar column of a display
DrawCalendarColumn ==
  /\ helper_args.fn = "none"
  /\ \E evs \in SeqsUpTo(CalendarEvents, MaxRows), width \in DisplayWidths,
        height \in DisplayHeights, s \in {7, 10, 13} :
       LET padding   == Scaled(10, s)
           divider_x == (width * 64) \div 100
           title_h   == Scaled(28, s) + padding * 2
           column    == draw_calendar(evs, RenderClock, TzUTC, "12h", LabelsFor("en"),
                                      0, title_h + padding, divider_x - padding,
                                      height, s)
       IN  /\ helper_args' = [fn |-> "_draw_calendar", events |-> evs,
                              y0 |-> title_h + padding, x0 |-> 0,
                              x1 |-> divider_x - padding, y_max |-> height,
                              font_scale |-> s]
           /\ canvas' = column.items
           /\ helper_result' = column.y
  /\ UNCHANGED <<callVars, render_args>>

SpecCalendar == Init /\ [][DrawCalendarColumn]_vars

\* ------------------------------------------------------------------------
\* The bottom bound of the calendar column (C17)
\* ------------------------------------------------------------------------
CalendarDrawn == helper_args.fn = "_draw_calendar"

\* the cursor never moves up
CursorMonotone ==
  /\ \A n \in 1..Len(canvas) : canvas[n].top <= canvas[n].cursor
  /\ \A n \in 2..Len(canvas) : canvas[n - 1].cursor <= canvas[n].top
  /\ helper_args.y0 <= helper_result
  /\ \A n \in 1..Len(canvas) : helper_args.y0 <= canvas[n].top /\ canvas[n].cursor <= helper_result

\* the rows drawn for day i, in order
RowsOfDay(i) == SelectSeq(canvas, LAMBDA it : it.item = "row" /\ it.day = i)

\* the rows of a day are those of the first events of that day: once a row
\* does not fit, no later one is drawn
RowsArePrefix ==
  \A i \in 0..2 :
    LET day_events == events_for_date(helper_args.events, DateOf(RenderClock) + i, TzUTC)
        rows == RowsOfDay(i)
    IN  /\ Len(rows) <= Len(day_events)
        /\ \A m \in 1..Len(rows) :
             /\ rows[m].draws[1].op = "ellipse"
             /\ rows[m].draws =
                  draw_event_row(day_events[m], "12h", TzUTC, helper_args.x0, rows[m].top,
                                 helper_args.x1, Scaled(24, helper_args.font_scale),
                                 Scaled(4, helper_args.font_scale),
                                 Scaled(10, helper_args.font_scale)).draws

\* C17: nothing is drawn past the bottom of the column: after every header,
\* event row and empty-day text the cursor is at most y_max; the cursor
\* never moves up; and the rows of a day stop at the first that does not fit
C17_NothingPastBottom ==
  CalendarDrawn =>
    /\ \A n \in 1..Len(canvas) : canvas[n].cursor <= helper_args.y_max
    /\ CursorMonotone
    /\ RowsArePrefix

\* what the checks of the loops give: a header ends above y_max, an event
\* row starts at least one line height above y_max
C17_HeadersFitRowsStartAbove ==
  CalendarDrawn =>
    /\ \A n \in 1..Len(canvas) :
         /\ canvas[n].item = "header" => canvas[n].cursor <= helper_args.y_max
         /\ canvas[n].item = "row" =>
              canvas[n].top + Scaled(24, helper_args.font_scale) <= helper_args.y_max
    /\ CursorMonotone
    /\ RowsArePrefix

\* ------------------------------------------------------------------------
\* _events_for_date called on its own
\* ------------------------------------------------------------------------
\* Day 2 10:00 at +00:00; day 2 09:00 at -05:00 (14:00 UTC); all day on day
\* 2; a placeholder at midnight of day 2; day 3 01:00 at +14:00 (day 2
\* 11:00 UTC); an event without start; one whose start is a bare time
DateEvents ==
  {RowEvent(<<"m">>, IsoFormat([utc |-> 58, off |-> 0]), FALSE, {}),
   RowEvent(<<"m", "m">>, IsoFormat([utc |-> 62, off |-> -5]), FALSE, {}),
   RowEvent(<<"i">>, IsoFormatDate(2), TRUE, {}),
   RowEvent(<<"i", "i">>, IsoFormat([utc |-> 48, off |-> 0]), TRUE, {PlaceholderClass}),
   RowEvent(<<"m", "i">>, IsoFormat([utc |-> 59, off |-> 14]), FALSE, {}),
   RowEvent(<<"i", "m">>, None, FALSE, {}),
   RowEvent(<<"i", "m", "i">>, IsoFormatTime(9), FALSE, {})}

EventsForDate ==
  /\ helper_args.fn = "none"
  /\ \E evs \in SeqsUpTo(DateEvents, MaxRows), date \in 1..3,
        zone \in {TzUTC, TzPagoPago, TzKiritimati} :
       /\ helper_args' = [fn |-> "_events_for_date", events |-> evs, date |-> date,
                          zone |-> zone]
       /\ helper_result' = events_for_date(evs, date, zone)
  /\ UNCHANGED <<callVars, renderVars>>

SpecEventsForDate == Init /\ [][EventsForDate]_vars

\* ------------------------------------------------------------------------
\* The events of a day and their order (C18)
\* ------------------------------------------------------------------------
DateSelected == helper_args.fn = "_events_for_date"

HasStart(ev) == ev.start # None /\ ev.start.kind \in {"aware", "date"}

\* the instant of a start: of a string with an offset, the wall-clock
\* reading minus the offset; of a date, its midnight in the target zone
StartInstant(ev, zone) ==
  IF ev.start.kind = "aware" THEN ev.start.wall - ev.start.off
  ELSE Localize(zone, ev.start.wall).utc

\* the day of that instant in the target zone
StartDay(ev, zone) ==
  (StartInstant(ev, zone) + UtcOffset(zone, StartInstant(ev, zone))) \div 24

Count(evs, e) == Cardinality({n \in 1..Len(evs) : evs[n] = e})

\* the result holds exactly the events that start on the date
ExactlyTheEventsOfTheDay ==
  \A e \in DateEvents :
    Count(helper_result, e) =
      (IF HasStart(e) /\ StartDay(e, helper_args.zone) = helper_args.date
       THEN Count(helper_args.events, e) ELSE 0)

AllDayFirst ==
  \A m, n \in 1..Len(helper_result) :
    (m < n /\ helper_result[n].allDay) => helper_result[m].allDay

\* C18: the result holds exactly the events whose start, in the target
\* zone, falls on the date; all-day events come first; and inside each
\* group the events are in the order of their start instants
C18_ChronologicalWithinGroups ==
  DateSelected =>
    /\ ExactlyTheEventsOfTheDay
    /\ AllDayFirst
    /\ \A m, n \in 1..Len(helper_result) :
         (m < n /\ helper_result[m].allDay = helper_result[n].allDay)
           => StartInstant(helper_result[m], helper_args.zone)
                <= StartInstant(helper_result[n], helper_args.zone)

\* the same, the order only among starts that carry the same offset
C18_ChronologicalForOneOffset ==
  DateSelected =>
    /\ ExactlyTheEventsOfTheDay
    /\ AllDayFirst
    /\ \A m, n \in 1..Len(helper_result) :
         (/\ m < n
          /\ helper_result[m].allDay = helper_result[n].allDay
          /\ helper_result[m].start.kind = "aware"
          /\ helper_result[n].start.kind = "aware"
          /\ helper_result[m].start.off = helper_result[n].start.off)
           => StartInstant(helper_result[m], helper_args.zone)
                <= StartInstant(helper_result[n], helper_args.zone)

\* ------------------------------------------------------------------------
\* _draw_event_row called on its own
\* ------------------------------------------------------------------------
\* Timed events at every hour of day 2 (UTC); an all-day event given by its
\* date and one given by its midnight; a placeholder; a placeholder whose
\* allDay is not set; a timed event without start and one whose start does
\* not parse
RowEvents ==
  {RowEvent(<<"m", "i">>, IsoFormat(Now(TzUTC, 48 + h)), FALSE, {}) : h \in 0..23}
  \cup {RowEvent(<<"i", "i">>, IsoFormatDate(2), TRUE, {}),
        RowEvent(<<"i", "i">>, IsoFormat(Now(TzUTC, 48)), TRUE, {}),
        RowEvent(<<"i", "m", "i">>, PlaceholderStart(RenderClock, 0), TRUE,
                 {PlaceholderClass}),
        RowEvent(<<"i", "m", "i">>, PlaceholderStart(RenderClock, 0), FALSE,
                 {PlaceholderClass}),
        RowEvent(<<"m">>, None, FALSE, {}),
        RowEvent(<<"m">>, IsoFormatTime(9), FALSE, {})}

\* the row below the first day header of an 800 or 100 pixel wide display
DrawEventRow ==
  /\ helper_args.fn = "none"
  /\ \E ev \in RowEvents, time_format \in {"12h", "24h"},
        zone \in {TzUTC, TzPagoPago}, x1 \in {54, 502} :
       LET row == draw_event_row(ev, time_format, zone, 0, 86, x1, 24, 4, 10)
       IN  /\ helper_args' = [fn |-> "_draw_event_row", ev |-> ev,
                              time_format |-> time_format, zone |-> zone, x1 |-> x1]
           /\ canvas' = row.draws
           /\ helper_result' = row.y
  /\ UNCHANGED <<callVars, render_args>>

SpecEventRow == Init /\ [][DrawEventRow]_vars

\* ------------------------------------------------------------------------
\* The time label of an event row (C19)
\* ------------------------------------------------------------------------
RowDrawn == helper_args.fn = "_draw_event_row"

\* the texts drawn in front of the title
LabelsDrawn ==
  {canvas[n].text : n \in {k \in 1..Len(canvas) :
                             canvas[k].op = "text" /\ canvas[k].font = "font"}}

RowIsPlaceholder == PlaceholderClass \in helper_args.ev.classNames

\* the start of the row's event, in the target zone, formatted per the flag
FormattedStart ==
  LET h == (StartInstant(helper_args.ev, helper_args.zone)
            + UtcOffset(helper_args.zone, StartInstant(helper_args.ev, helper_args.zone)))
           % 24
  IN  IF helper_args.time_format = "12h" THEN Strftime12(h) ELSE Strftime24(h)

\* C19: no time label is drawn for an all-day event nor for a placeholder
\* row; a label is drawn only for a timed event that is no placeholder,
\* and it is the start time in 12h or 24h format
C19_NoLabelForAllDayAndPlaceholder ==
  RowDrawn =>
    /\ (helper_args.ev.allDay \/ RowIsPlaceholder) => LabelsDrawn = {}
    /\ LabelsDrawn # {} =>
         /\ ~helper_args.ev.allDay
         /\ ~RowIsPlaceholder
         /\ LabelsDrawn = {FormattedStart}

\* what the row shows: nothing for a placeholder, "All day" for an all-day
\* event, else the formatted start (nothing when it does not parse)
C19_AllDayLabelled ==
  RowDrawn =>
    /\ RowIsPlaceholder => LabelsDrawn = {}
    /\ (helper_args.ev.allDay /\ ~RowIsPlaceholder) => LabelsDrawn = {"All day"}
    /\ (~helper_args.ev.allDay /\ ~RowIsPlaceholder) =>
         IF HasStart(helper_args.ev) THEN LabelsDrawn = {FormattedStart}
         ELSE LabelsDrawn = {}

\* ------------------------------------------------------------------------
\* PIL renderer: the whole dashboard (render_dashboard)
\* ------------------------------------------------------------------------
\* draw.line from (xa, ya) to (xb, yb), one pixel wide
Line(xa, ya, xb, yb) ==
  [op |-> "line", text |-> <<>>, x |-> xa, y |-> ya, x1 |-> xb, y1 |-> yb,
   fill |-> "LIGHT_GRAY"]

\* _draw_title_bar: the date of current_dt at y = padding, centred by the
\* font metrics of the drawing library, and the underline at title_h
draw_title_bar(width, title_h, now, padding) ==
  <<[op |-> "text", text |-> <<DateOf(now)>>, y |-> padding,
     font |-> "font_title", fill |-> "fg"],
    Line(0, title_h, width, title_h)>>

\* the draw calls of the calendar column, in the order they are made
RECURSIVE ItemDraws(_)
ItemDraws(items) ==
  IF items = <<>> THEN <<>> ELSE Head(items).draws \o ItemDraws(Tail(items))

\* render_dashboard(dimensions, events, weather, current_dt, timezone_str,
\* time_format, labels, font_scale, units): the draw calls of its four
\* steps on the new image
render_dashboard(width, height, evs, w, now, zone, time_format, labels, scale10, units) ==
  LET padding   == Scaled(10, scale10)
      divider_x == (width * 64) \div 100
      title_h   == Scaled(28, scale10) + padding * 2
  IN  [title    |-> draw_title_bar(width, title_h, now, padding),
       divider  |-> <<Line(divider_x, title_h, divider_x, height)>>,
       calendar |-> ItemDraws(draw_calendar(evs, now, zone, time_format, labels, 0,
                                            title_h + padding, divider_x - padding,
                                            height, scale10).items),
       weather  |-> draw_weather(w, units, time_format, title_h + padding, scale10)]

\* The weather arguments: None, the empty dict, and every snapshot
\* fetch_weather_data returns for the responses above
RenderWeathers ==
  {Missing(DegradedSnapshot),
   Given([DegradedSnapshot EXCEPT !.keys = {}])}
  \cup {Given(fetch_weather_data(r, l).value) : r \in MainResponses, l \in {"en", "de"}}

\* The event lists: none, or one of the events of the calendar column
RenderEvents == SeqsUpTo(CalendarEvents, 1)

\* One call of render_dashboard for a display of 800 x 480.  The arguments
\* are the call's inputs; the
\* canvas holds every draw call, weather_from is the position of the first
\* one _draw_weather makes.
RenderDashboard(weathers) ==
  /\ ~render_args.called
  /\ \E w \in weathers, u \in {"imperial", "standard", "metric"},
        f \in {"12h", "24h"}, s \in FontScales, evs \in RenderEvents :
       LET r == render_dashboard(800, 480, evs, w, RenderClock, TzUTC,
                                 f, LabelsFor("en"), s, u)
       IN  /\ render_args' = [called |-> TRUE, events |-> evs, weather |-> w,
                              units |-> u, time_format |-> f, font_scale |-> s,
                              weather_from |->
                                Len(r.title) + Len(r.divider) + Len(r.calendar) + 1]
           /\ canvas' = r.title \o r.divider \o r.calendar \o r.weather
  /\ UNCHANGED <<callVars, helperVars>>

RenderNext == RenderDashboard(RenderWeathers)

SpecRender == Init /\ [][RenderNext]_vars

\* ------------------------------------------------------------------------
\* The weather column after a failed weather fetch (C8)
\* ------------------------------------------------------------------------
Drawn == render_args.called

\* what _draw_weather has drawn
WeatherColumn == SubSeq(canvas, render_args.weather_from, Len(canvas))

\* C8: given the snapshot fetch_weather_data returns after a failure, the
\* weather column shows the text "No weather data" and nothing else
C8_DegradedShowsNoWeatherData ==
  (Drawn /\ render_args.weather = Given(OnWeatherFailure.value)) =>
    /\ Len(WeatherColumn) = 1
    /\ WeatherColumn[1].op = "text"
    /\ WeatherColumn[1].text = "No weather data"

\* the text is drawn exactly when the argument is None or an empty dict
C8_TextOnlyForNoneOrEmpty ==
  Drawn =>
    ((\E i \in 1..Len(WeatherColumn) : WeatherColumn[i].text = "No weather data")
       <=> (~render_args.weather.present \/ render_args.weather.v.keys = {}))

====
